---- MODULE Spec2Model ----
(***************************************************************************)
(* Model of the admin deletion dashboard's account service:                *)
(* internal/service/account_service.go (LookupAccount, DeleteAccount and   *)
(* their query helpers) over a relational store with one committed state  *)
(* and per-request transactions.                                           *)
(*                                                                         *)
(* Statements issued on s.db run in autocommit mode and read the committed *)
(* state; statements issued on tx are buffered in the transaction and      *)
(* reach the committed state at tx.Commit() only.                          *)
(***************************************************************************)
EXTENDS Integers, Sequences, FiniteSets, TLC

VARIABLES db, st, lk, clock, epoch, calls, http

vars == <<db, st, lk, clock, epoch, calls, http>>

(***************************************************************************)
(* Bounds.                                                                 *)
(***************************************************************************)
\* total number of DeleteAccount calls in a behaviour
MaxCalls == 2
\* total number of LookupAccount calls in a behaviour
MaxLookups == 1
\* number of DeleteAccount calls in a behaviour of SpecLookup
MaxCallsLookup == 1
\* audit-log requests in a behaviour of SpecQuery
MaxQueryReads == 1
\* audit-log requests in a behaviour of SpecAudit
MaxLogReads == 2
\* rows of the audit log at the start of a behaviour of SpecAudit
MaxAuditRows == 4
\* requests AuthMiddleware answers 401 in a behaviour of SpecAuth
MaxRejected == 1
\* HandleLogin and HandleCallback calls in a behaviour of SpecOAuth
MaxLogins == 2
MaxCallbacks == 3

(***************************************************************************)
(* The rows of the four hierarchy tables.  Rows are created by external    *)
(* systems; the service never inserts or removes them.                     *)
(***************************************************************************)
Procs == {"p1", "p2"}

UserIds == {"u1", "u2"}
GroupIds == {"g1", "g2", "g3"}
CompanyIds == {"c1", "c2"}
LocationIds == {"l1", "l2", "l3"}

\* e-mail addresses are strings of characters; two letters have both cases
UserEmail(u) == IF u = "u1" THEN <<"a", "x">> ELSE <<"B", "x">>
GroupOwner(g) == IF g = "g3" THEN "u2" ELSE "u1"
GroupCreatedOn(g) == CASE g = "g1" -> 1 [] g = "g2" -> 2 [] OTHER -> 3
CompanyParent(c) == IF c = "c1" THEN "g1" ELSE "g3"
LocationParent(l) == IF l = "l3" THEN "c2" ELSE "c1"

\* SQL NULL in a text column, and in a timestamp column
NULL == "NULL"
NoTime == 0

\* the soft-delete state some rows may already have when the service starts
InitDeleted == {{}, {"l2"}, {"g3", "c2", "l3"}}
\* rows whose is_deleted column was never set
InitNullFlag == {"g2", "l1"}

InitRow(id, pre) ==
    IF id \in pre
    THEN [is_deleted |-> "true", deleted_by |-> "ext", deleted_on |-> 1]
    ELSE [is_deleted |-> IF id \in InitNullFlag THEN NULL ELSE "false",
          deleted_by |-> NULL, deleted_on |-> NoTime]

\* the name column of a group, company or location row
RowName(id) == <<"name of", id>>

InitDb(pre) ==
    [user     |-> [u \in UserIds |-> [email |-> UserEmail(u)] @@ InitRow(u, pre)],
     groups   |-> [g \in GroupIds |->
                     [name |-> RowName(g), created_by |-> GroupOwner(g),
                      created_on |-> GroupCreatedOn(g)] @@ InitRow(g, pre)],
     company  |-> [c \in CompanyIds |->
                     [name |-> RowName(c), parent |-> CompanyParent(c)] @@ InitRow(c, pre)],
     location |-> [l \in LocationIds |->
                     [name |-> RowName(l), parent |-> LocationParent(l)] @@ InitRow(l, pre)],
     audit    |-> <<>>]

(***************************************************************************)
(* Query helpers (account_service.go).                                     *)
(***************************************************************************)
\* SQL LOWER() on the modelled alphabet
LowerChar(ch) == CASE ch = "A" -> "a" [] ch = "B" -> "b" [] ch = "X" -> "x"
                   [] OTHER -> ch
Lower(s) == [i \in 1..Len(s) |-> LowerChar(s[i])]

\* (is_deleted = false OR is_deleted IS NULL)
IsLive(row) == row.is_deleted = "false" \/ row.is_deleted = NULL

getUserByEmailAnyFlag(dbv, email) ==
    {u \in DOMAIN dbv.user : Lower(dbv.user[u].email) = Lower(email)}

\* the ids getUserByEmail's query matches (LIMIT 1 picks one of them)
getUserByEmail(dbv, email) ==
    {u \in DOMAIN dbv.user :
        Lower(dbv.user[u].email) = Lower(email) /\ IsLive(dbv.user[u])}

\* ORDER BY created_on DESC
RECURSIVE OrderByCreatedOnDesc(_, _)
OrderByCreatedOnDesc(dbv, ids) ==
    IF ids = {} THEN <<>>
    ELSE LET g == CHOOSE x \in ids :
                    \A y \in ids : dbv.groups[y].created_on <= dbv.groups[x].created_on
         IN <<g>> \o OrderByCreatedOnDesc(dbv, ids \ {g})

getGroupsByOwnerAscending(dbv, userID) ==
    LET ids == {g \in DOMAIN dbv.groups :
                  dbv.groups[g].created_by = userID /\ IsLive(dbv.groups[g])}
        d == OrderByCreatedOnDesc(dbv, ids)
    IN [i \in 1..Len(d) |-> d[Len(d) + 1 - i]]

getGroupsByOwner(dbv, userID) ==
    OrderByCreatedOnDesc(dbv,
        {g \in DOMAIN dbv.groups :
            dbv.groups[g].created_by = userID /\ IsLive(dbv.groups[g])})

getCompaniesByParentNone(dbv, parentID) == {}

getCompaniesByParent(dbv, parentID) ==
    {c \in DOMAIN dbv.company :
        dbv.company[c].parent = parentID /\ IsLive(dbv.company[c])}

getLocationsByParentNone(dbv, parentID) == {}

getLocationsByParent(dbv, parentID) ==
    {l \in DOMAIN dbv.location :
        dbv.location[l].parent = parentID /\ IsLive(dbv.location[l])}

companyCountAnyGroup(dbv, groupID) ==
    Cardinality({c \in DOMAIN dbv.company : IsLive(dbv.company[c])})

\* getHierarchyCounts, first query: SELECT COUNT(*) FROM company ...
companyCount(dbv, groupID) ==
    Cardinality({c \in DOMAIN dbv.company :
        dbv.company[c].parent = groupID /\ IsLive(dbv.company[c])})

locationCountAnyCompanyFlag(dbv, groupID) ==
    Cardinality({l \in DOMAIN dbv.location :
        \E c \in DOMAIN dbv.company :
            /\ dbv.location[l].parent = c
            /\ dbv.company[c].parent = groupID
            /\ IsLive(dbv.location[l])})

\* getHierarchyCounts, second query: location INNER JOIN company
locationCount(dbv, groupID) ==
    Cardinality({l \in DOMAIN dbv.location :
        \E c \in DOMAIN dbv.company :
            /\ dbv.location[l].parent = c
            /\ dbv.company[c].parent = groupID
            /\ IsLive(dbv.location[l])
            /\ IsLive(dbv.company[c])})

\* the orders in which a query without ORDER BY may return a set of rows
Orders(S) ==
    {s \in [1..Cardinality(S) -> S] : \A i, j \in DOMAIN s : i /= j => s[i] /= s[j]}

(***************************************************************************)
(* Statements executed on a transaction.                                   *)
(***************************************************************************)
\* UPDATE <table> SET is_deleted = true, deleted_by = $1, deleted_on = $2
\* WHERE id = $3
softDelete(tbl, id, deletedBy, deletedOn) ==
    [kind |-> "update", tbl |-> tbl, id |-> id, by |-> deletedBy, on |-> deletedOn]

softDeleteLocationAtItsOwnTime(locationID, deletedBy, deletedOn) ==
    softDelete("location", locationID, deletedBy, deletedOn + 1)

softDeleteLocation(locationID, deletedBy, deletedOn) ==
    softDelete("location", locationID, deletedBy, deletedOn)
softDeleteCompany(companyID, deletedBy, deletedOn) ==
    softDelete("company", companyID, deletedBy, deletedOn)
softDeleteGroup(groupID, deletedBy, deletedOn) ==
    softDelete("groups", groupID, deletedBy, deletedOn)

softDeleteUserWrongTable(userID, deletedBy, deletedOn) ==
    softDelete("groups", userID, deletedBy, deletedOn)

softDeleteUser(userID, deletedBy, deletedOn) ==
    softDelete("user", userID, deletedBy, deletedOn)

createAuditLogDistinctGroups(req, deletedGroups, deletedCompanies, deletedLocations, timestamp) ==
    [kind |-> "insert", tbl |-> "audit",
     entry |-> [action            |-> "ACCOUNT_DELETION",
                deleted_by_email  |-> req.DeletedBy,
                target_email      |-> req.Email,
                target_user_id    |-> req.UserID,
                group_ids         |-> req.GroupIDs,
                reason            |-> req.Reason,
                deleted_groups    |-> Cardinality({req.GroupIDs[i] : i \in DOMAIN req.GroupIDs}),
                deleted_companies |-> deletedCompanies,
                deleted_locations |-> deletedLocations,
                created_at        |-> timestamp]]

\* INSERT INTO admin_deletion_audit_log ...
createAuditLog(req, deletedGroups, deletedCompanies, deletedLocations, timestamp) ==
    [kind |-> "insert", tbl |-> "audit",
     entry |-> [action            |-> "ACCOUNT_DELETION",
                deleted_by_email  |-> req.DeletedBy,
                target_email      |-> req.Email,
                target_user_id    |-> req.UserID,
                group_ids         |-> req.GroupIDs,
                reason            |-> req.Reason,
                deleted_groups    |-> deletedGroups,
                deleted_companies |-> deletedCompanies,
                deleted_locations |-> deletedLocations,
                created_at        |-> timestamp]]

ExecNoWhere(dbv, s) ==
    IF s.kind = "insert"
    THEN [dbv EXCEPT !.audit = Append(@, s.entry)]
    ELSE [dbv EXCEPT ![s.tbl] =
            [id \in DOMAIN dbv[s.tbl] |->
                [dbv[s.tbl][id] EXCEPT !.is_deleted = "true",
                                       !.deleted_by = s.by,
                                       !.deleted_on = s.on]]]

ExecRemovesRow(dbv, s) ==
    IF s.kind = "insert"
    THEN [dbv EXCEPT !.audit = Append(@, s.entry)]
    ELSE [dbv EXCEPT ![s.tbl] = [id \in DOMAIN dbv[s.tbl] \ {s.id} |-> dbv[s.tbl][id]]]

\* the effect of one statement on a database state
Exec(dbv, s) ==
    IF s.kind = "insert"
    THEN [dbv EXCEPT !.audit = Append(@, s.entry)]
    ELSE IF s.id \in DOMAIN dbv[s.tbl]
         THEN [dbv EXCEPT ![s.tbl][s.id].is_deleted = "true",
                          ![s.tbl][s.id].deleted_by = s.by,
                          ![s.tbl][s.id].deleted_on = s.on]
         ELSE dbv

RECURSIVE ExecAll(_, _)
ExecAll(dbv, stmts) ==
    IF stmts = <<>> THEN dbv ELSE ExecAll(Exec(dbv, Head(stmts)), Tail(stmts))

CommitWithoutInserts(dbv, stmts) ==
    ExecAll(dbv, SelectSeq(stmts, LAMBDA s : s.kind = "update"))

\* tx.Commit(): the buffered statements reach the committed state together
Commit(dbv, stmts) == ExecAll(dbv, stmts)

RollbackKeepsWrites(dbv, stmts) == ExecAll(dbv, stmts)

\* tx.Rollback() (deferred): the buffered statements are discarded
Rollback(dbv, stmts) == dbv

(***************************************************************************)
(* Requests.                                                               *)
(***************************************************************************)
\* group id lists a caller may send: single ids, a repeated id, two groups in
\* either order, another user's group, and an id no group row has
GroupIdLists ==
    {<<"g1">>, <<"g2">>, <<"g3">>, <<"g9">>, <<"g1", "g1">>, <<"g1", "g2">>, <<"g2", "g1">>}

\* models.DeleteAccountRequest, as the handler passes it to the service:
\* requests for user u1 and its e-mail address, ...
OwnRequests ==
    [Email     : {UserEmail("u1")},
     UserID    : {"u1"},
     GroupIDs  : GroupIdLists,
     Reason    : {"cleanup"},
     DeletedBy : {"amy@appointy.com"}]

\* ... a request by another administrator, a request for user u2, a user id
\* no row has, and a user id that is not the one of the e-mail address
OtherRequests ==
    {[Email |-> UserEmail("u1"), UserID |-> "u1", GroupIDs |-> <<"g1">>,
      Reason |-> "", DeletedBy |-> "bob@appointy.com"],
     [Email |-> UserEmail("u2"), UserID |-> "u2", GroupIDs |-> <<"g3">>,
      Reason |-> "", DeletedBy |-> "amy@appointy.com"],
     [Email |-> UserEmail("u1"), UserID |-> "u9", GroupIDs |-> <<"g1">>,
      Reason |-> "", DeletedBy |-> "bob@appointy.com"],
     [Email |-> UserEmail("u2"), UserID |-> "u1", GroupIDs |-> <<"g2">>,
      Reason |-> "cleanup", DeletedBy |-> "amy@appointy.com"]}

Requests == OwnRequests \cup OtherRequests

\* e-mail addresses a caller may look up
LookupEmails == {<<"a", "x">>, <<"A", "X">>, <<"b", "x">>, <<"z", "x">>}

(***************************************************************************)
(* Authentication (internal/auth/google_auth.go).                          *)
(***************************************************************************)
\* net/http status codes
StatusOK == 200
StatusBadRequest == 400
StatusUnauthorized == 401
StatusNotFound == 404
StatusInternalServerError == 500
StatusForbidden == 403

\* c.JWTSecret
JWTSecret == "secret"
HMACAlgs == {"HS256", "HS384", "HS512"}

\* strings.ToLower and strings.HasSuffix(_, "@appointy.com") on the e-mail
\* addresses of the model
ToLower(s) == IF s = "Bob@APPOINTY.COM" THEN "bob@appointy.com" ELSE s
HasAppointySuffix(s) == s \in {"amy@appointy.com", "bob@appointy.com"}

\* ValidateAppointyEmail(email) returns nil
ValidateAppointyEmail(email) == HasAppointySuffix(ToLower(email))

\* a token string: one that does not parse as a JWT, or a JWT with its
\* algorithm, the key that signed it, its exp and nbf claims (NoTime: the
\* claim is absent) and its email claim
NoJwt == [parses |-> FALSE, alg |-> "", key |-> "", exp |-> NoTime, nbf |-> NoTime, email |-> ""]

Jwt(alg, key, exp, nbf, email) ==
    [parses |-> TRUE, alg |-> alg, key |-> key, exp |-> exp, nbf |-> nbf, email |-> email]

\* token strings a client may send: tokens GenerateJWT issued (still valid, or
\* expired), and forged or altered ones
FarFuture == 9
\* the lifetime of a token GenerateJWT issues (24 hours), in clock ticks
TokenLifetime == 7
JwtStrings ==
    {NoJwt,
     Jwt("HS256", JWTSecret, FarFuture, 1, "amy@appointy.com"),
     Jwt("HS256", JWTSecret, FarFuture, 1, "Bob@APPOINTY.COM"),
     Jwt("HS256", JWTSecret, 3, 1, "amy@appointy.com"),
     Jwt("HS256", JWTSecret, 1, 1, "amy@appointy.com"),
     Jwt("HS256", JWTSecret, FarFuture, FarFuture, "amy@appointy.com"),
     Jwt("HS256", "guess", FarFuture, 1, "amy@appointy.com"),
     Jwt("none", "", FarFuture, 1, "amy@appointy.com"),
     Jwt("RS256", JWTSecret, FarFuture, 1, "amy@appointy.com"),
     Jwt("HS256", JWTSecret, FarFuture, 1, "eve@gmail.com"),
     Jwt("HS256", JWTSecret, FarFuture, 1, "eve@appointy.com.evil.org")}

ValidateJWTIgnoresExpiry(tok, now) ==
    /\ tok.parses
    /\ tok.alg \in HMACAlgs
    /\ tok.key = JWTSecret
    /\ tok.nbf = NoTime \/ tok.nbf <= now
    /\ ValidateAppointyEmail(tok.email)

\* ValidateJWT returns claims: the token parses, its method is an HMAC one,
\* its signature verifies under c.JWTSecret, its exp and nbf claims (when
\* present) admit the current time, and its email passes ValidateAppointyEmail
ValidateJWT(tok, now) ==
    /\ tok.parses
    /\ tok.alg \in HMACAlgs
    /\ tok.key = JWTSecret
    /\ tok.exp = NoTime \/ now < tok.exp
    /\ tok.nbf = NoTime \/ tok.nbf <= now
    /\ ValidateAppointyEmail(tok.email)

\* an Authorization header: what precedes the token string, and the token
\* string; the header is missing when both are empty
NoHeader == [scheme |-> "", token |-> NoJwt, empty |-> TRUE]

AuthHeaders ==
    {NoHeader}
    \cup [scheme : {"Bearer "}, token : JwtStrings, empty : {FALSE}]
    \cup [scheme : {"", "bearer ", "Basic "},
          token  : {Jwt("HS256", JWTSecret, FarFuture, 1, "amy@appointy.com")},
          empty  : {FALSE}]

\* AuthMiddleware: 401 and Abort, or user_email set in the context and Next()
AuthMiddleware(h, now) ==
    IF h.empty THEN [code |-> StatusUnauthorized, email |-> NULL]
    ELSE IF h.scheme /= "Bearer " THEN [code |-> StatusUnauthorized, email |-> NULL]
    ELSE IF ~ValidateJWT(h.token, now) THEN [code |-> StatusUnauthorized, email |-> NULL]
    ELSE [code |-> 0, email |-> h.token.email]

Routes == {"lookup", "delete", "audit-logs"}

(***************************************************************************)
(* State.                                                                  *)
(*   db     the committed database state                                   *)
(*   st[p]  the DeleteAccount call of request goroutine p                  *)
(*   lk     the LookupAccount call of the reader goroutine                 *)
(*   clock  the wall clock read by time.Now()                              *)
(*   epoch  number of transactions committed so far           (history)    *)
(*   calls  number of DeleteAccount calls started so far      (history)    *)
(*   http   what the HTTP handlers received and answered:                  *)
(*          http.del[p] the delete request of goroutine p,                 *)
(*          http.logs   the audit-log responses so far,                    *)
(*          http.req    the last request to a protected route and what     *)
(*                      AuthMiddleware did with it (calls0, n0, logs0 and  *)
(*                      del0 are calls, lk.n, Len(http.logs) and           *)
(*                      http.del["p1"] at that moment, rejected counts the *)
(*                      requests answered 401)                (history)    *)
(*          http.auth   the AuthHandler: its sessions map (the set of its  *)
(*                      keys), the HandleLogin or HandleCallback call of   *)
(*                      each request goroutine (h), and the tokens issued; *)
(*                      issued (states generated so far), accepted (states *)
(*                      that passed the callback's check, in order),       *)
(*                      logins and callbacks (calls started) are history;  *)
(*                      fatal: the runtime has stopped the process         *)
(* History fields of st[p]: db0, epoch0 and lk0 are db, epoch and lk when  *)
(* the call started, epoch1 is epoch right after its commit.  History      *)
(* fields of lk: epoch0 is epoch at its first query, clean says that no    *)
(* transaction committed during the lookup, dbU and dbG are the user and   *)
(* group tables its first and second query read.                           *)
(***************************************************************************)
NilResp ==
    [isNil |-> TRUE, Success |-> FALSE, DeletedGroups |-> 0,
     DeletedCompanies |-> 0, DeletedLocations |-> 0, DeletedAt |-> NoTime]

NoReq ==
    [Email |-> <<>>, UserID |-> NULL, GroupIDs |-> <<>>, Reason |-> "",
     DeletedBy |-> NULL]

IdleLookup ==
    [pc |-> "idle", email |-> <<>>, user |-> NULL, groups |-> <<>>, i |-> 1,
     cc |-> 0, infos |-> <<>>, status |-> "", n |-> 0,
     epoch0 |-> 0, clean |-> FALSE,
     dbU |-> InitDb({}).user, dbG |-> InitDb({}).groups]

IdleCall ==
    [pc |-> "idle", req |-> NoReq, now |-> NoTime, gi |-> 1,
     companies |-> <<>>, locations |-> <<>>,
     deletedGroups |-> 0, deletedCompanies |-> 0, deletedLocations |-> 0,
     tx |-> <<>>, resp |-> NilResp, err |-> "",
     db0 |-> InitDb({}), epoch0 |-> 0, epoch1 |-> 0, lk0 |-> IdleLookup]

\* the JSON body of a delete request before binding
NoPayload ==
    [Email |-> <<>>, UserID |-> "", hasGroupIDs |-> FALSE, GroupIDs |-> <<>>,
     Reason |-> "", DeletedBy |-> ""]

\* no request has reached a protected route
IdleDel == [code |-> 0, payload |-> NoPayload, email |-> NULL]

NoRequest ==
    [route |-> "", header |-> NoHeader, code |-> StatusUnauthorized, email |-> NULL,
     calls0 |-> 0, n0 |-> 0, logs0 |-> 0, del0 |-> IdleDel, now |-> NoTime,
     rejected |-> 0]

\* Google's answer to GetUserInfo
NoUserInfo == [Email |-> "", VerifiedEmail |-> FALSE]

\* a request goroutine that is in neither HandleLogin nor HandleCallback
IdleAuthCall == [pc |-> "idle", state |-> "", code |-> 0, userInfo |-> NoUserInfo]

\* AuthHandler after NewAuthHandler: an empty sessions map
IdleAuth ==
    [sessions |-> {},
     h        |-> [p \in Procs |-> IdleAuthCall],
     issued   |-> {},
     accepted |-> <<>>,
     tokens   |-> <<>>,
     logins   |-> 0,
     callbacks |-> 0,
     fatal    |-> FALSE]

IdleHttp ==
    [del  |-> [p \in Procs |-> IdleDel],
     logs |-> <<>>,
     req  |-> NoRequest,
     auth |-> IdleAuth]

InFlight == {"companies", "locations", "delLocation", "delCompany", "delGroup",
             "delUser", "audit", "commit"}

Init ==
    /\ \E pre \in InitDeleted : db = InitDb(pre)
    /\ st = [p \in Procs |-> IdleCall]
    /\ lk = IdleLookup
    /\ clock = 2
    /\ epoch = 0
    /\ calls = 0
    /\ http = IdleHttp

(***************************************************************************)
(* DeleteAccount (account_service.go:65-138), one action per statement.    *)
(***************************************************************************)
\* a row another open transaction has updated is locked until that
\* transaction ends
Locked(p, tbl, id) ==
    /\ id \in DOMAIN db[tbl]
    /\ \E q \in Procs \ {p} :
         /\ st[q].pc \in InFlight
         /\ \E k \in DOMAIN st[q].tx :
              /\ st[q].tx[k].kind = "update"
              /\ st[q].tx[k].tbl = tbl
              /\ st[q].tx[k].id = id

\* the error DeleteAccount wraps when the statement at pc fails
ErrorAt(pc) ==
    CASE pc \in {"companies", "locations"} -> "QueryFailed"
      [] pc \in {"delLocation", "delCompany", "delGroup", "delUser"} -> "UpdateFailed"
      [] pc = "audit" -> "AuditWriteFailed"
      [] OTHER -> "CommitFailed"

\* the values time.Now() may return to a call that starts now: the clock, or
\* the instant a concurrent call read when it has only just started (the
\* created_at column does not tell two such instants apart)
Now(p) ==
    {clock} \cup {st[q].now : q \in {r \in Procs \ {p} :
                                        /\ st[r].pc = "companies"
                                        /\ st[r].gi = 1
                                        /\ st[r].tx = <<>>}}

\* s.db.BeginTx succeeds; now := time.Now(); the counters start at 0
BeginTx(p, req) ==
    /\ st[p].pc \in {"idle", "done"}
    /\ calls < MaxCalls
    /\ \E now \in Now(p) :
         st' = [st EXCEPT ![p] =
                [IdleCall EXCEPT !.pc = IF req.GroupIDs = <<>> THEN "delUser" ELSE "companies",
                                 !.req = req, !.now = now,
                                 !.db0 = db, !.epoch0 = epoch, !.lk0 = lk]]
    /\ clock' = clock + 1
    /\ calls' = calls + 1
    /\ UNCHANGED <<db, lk, epoch>>

\* s.db.BeginTx fails: no transaction, return nil and an error
BeginTxFailed(p, req) ==
    /\ st[p].pc \in {"idle", "done"}
    /\ calls < MaxCalls
    /\ st' = [st EXCEPT ![p] =
                [IdleCall EXCEPT !.pc = "done", !.req = req,
                                 !.err = "TransactionStartFailed",
                                 !.db0 = db, !.epoch0 = epoch, !.lk0 = lk]]
    /\ calls' = calls + 1
    /\ UNCHANGED <<db, lk, clock, epoch>>

\* companies, err := s.getCompaniesByParent(ctx, groupID)   (read on s.db)
GetCompanies(p) ==
    /\ st[p].pc = "companies"
    /\ \E cs \in Orders(getCompaniesByParent(db, st[p].req.GroupIDs[st[p].gi])) :
         st' = [st EXCEPT ![p].companies = cs,
                          ![p].pc = IF cs = <<>> THEN "delGroup" ELSE "locations"]
    /\ UNCHANGED <<db, lk, clock, epoch, calls>>

\* locations, err := s.getLocationsByParent(ctx, company.ID)   (read on s.db)
GetLocations(p) ==
    /\ st[p].pc = "locations"
    /\ \E ls \in Orders(getLocationsByParent(db, Head(st[p].companies))) :
         st' = [st EXCEPT ![p].locations = ls,
                          ![p].pc = IF ls = <<>> THEN "delCompany" ELSE "delLocation"]
    /\ UNCHANGED <<db, lk, clock, epoch, calls>>

\* s.softDeleteLocation(ctx, tx, location.ID, ...); deletedLocations++
SoftDeleteLocation(p) ==
    /\ st[p].pc = "delLocation"
    /\ ~Locked(p, "location", Head(st[p].locations))
    /\ st' = [st EXCEPT
                ![p].tx = Append(@, softDeleteLocation(Head(st[p].locations),
                                                       st[p].req.DeletedBy, st[p].now)),
                ![p].deletedLocations = @ + 1,
                ![p].locations = Tail(@),
                ![p].pc = IF Tail(st[p].locations) = <<>> THEN "delCompany" ELSE "delLocation"]
    /\ UNCHANGED <<db, lk, clock, epoch, calls>>

SoftDeleteCompanyBeforeLocations(p) ==
    /\ st[p].pc = "delLocation"
    /\ ~Locked(p, "company", Head(st[p].companies))
    /\ st' = [st EXCEPT
                ![p].tx = Append(@, softDeleteCompany(Head(st[p].companies),
                                                      st[p].req.DeletedBy, st[p].now)),
                ![p].deletedCompanies = @ + 1,
                ![p].companies = Tail(@),
                ![p].locations = <<>>,
                ![p].pc = IF Tail(st[p].companies) = <<>> THEN "delGroup" ELSE "locations"]
    /\ UNCHANGED <<db, lk, clock, epoch, calls>>

\* s.softDeleteCompany(ctx, tx, company.ID, ...); deletedCompanies++
SoftDeleteCompany(p) ==
    /\ st[p].pc = "delCompany"
    /\ ~Locked(p, "company", Head(st[p].companies))
    /\ st' = [st EXCEPT
                ![p].tx = Append(@, softDeleteCompany(Head(st[p].companies),
                                                      st[p].req.DeletedBy, st[p].now)),
                ![p].deletedCompanies = @ + 1,
                ![p].companies = Tail(@),
                ![p].pc = IF Tail(st[p].companies) = <<>> THEN "delGroup" ELSE "locations"]
    /\ UNCHANGED <<db, lk, clock, epoch, calls>>

\* s.softDeleteGroup(ctx, tx, groupID, ...); deletedGroups++; next group
SoftDeleteGroup(p) ==
    /\ st[p].pc = "delGroup"
    /\ ~Locked(p, "groups", st[p].req.GroupIDs[st[p].gi])
    /\ st' = [st EXCEPT
                ![p].tx = Append(@, softDeleteGroup(st[p].req.GroupIDs[st[p].gi],
                                                    st[p].req.DeletedBy, st[p].now)),
                ![p].deletedGroups = @ + 1,
                ![p].gi = @ + 1,
                ![p].pc = IF st[p].gi = Len(st[p].req.GroupIDs) THEN "delUser" ELSE "companies"]
    /\ UNCHANGED <<db, lk, clock, epoch, calls>>

\* s.softDeleteUser(ctx, tx, req.UserID, ...)
SoftDeleteUser(p) ==
    /\ st[p].pc = "delUser"
    /\ ~Locked(p, "user", st[p].req.UserID)
    /\ st' = [st EXCEPT
                ![p].tx = Append(@, softDeleteUser(st[p].req.UserID,
                                                   st[p].req.DeletedBy, st[p].now)),
                ![p].pc = "audit"]
    /\ UNCHANGED <<db, lk, clock, epoch, calls>>

\* s.createAuditLog(ctx, tx, req, deletedGroups, deletedCompanies, deletedLocations, now)
CreateAuditLog(p) ==
    /\ st[p].pc = "audit"
    /\ st' = [st EXCEPT
                ![p].tx = Append(@, createAuditLog(st[p].req, st[p].deletedGroups,
                                                   st[p].deletedCompanies,
                                                   st[p].deletedLocations, st[p].now)),
                ![p].pc = "commit"]
    /\ UNCHANGED <<db, lk, clock, epoch, calls>>

\* tx.Commit() succeeds; return the response with the three counters
TxCommit(p) ==
    /\ st[p].pc = "commit"
    /\ db' = Commit(db, st[p].tx)
    /\ epoch' = epoch + 1
    /\ st' = [st EXCEPT
                ![p].pc = "done",
                ![p].tx = <<>>,
                ![p].epoch1 = epoch + 1,
                ![p].resp = [isNil            |-> FALSE,
                             Success          |-> TRUE,
                             DeletedGroups    |-> st[p].deletedGroups,
                             DeletedCompanies |-> st[p].deletedCompanies,
                             DeletedLocations |-> st[p].deletedLocations,
                             DeletedAt        |-> st[p].now]]
    /\ UNCHANGED <<lk, clock, calls>>

\* the statement at pc returns an error: return nil, err; the deferred
\* tx.Rollback() runs
StepFailed(p) ==
    /\ st[p].pc \in InFlight
    /\ db' = Rollback(db, st[p].tx)
    /\ st' = [st EXCEPT ![p].pc = "done", ![p].tx = <<>>,
                        ![p].resp = NilResp, ![p].err = ErrorAt(st[p].pc)]
    /\ UNCHANGED <<lk, clock, epoch, calls>>

DeleteAccount(p) ==
    \/ \E req \in Requests : BeginTx(p, req)
    \/ \E req \in Requests : BeginTxFailed(p, req)
    \/ GetCompanies(p)
    \/ GetLocations(p)
    \/ SoftDeleteLocation(p)
    \/ SoftDeleteCompany(p)
    \/ SoftDeleteGroup(p)
    \/ SoftDeleteUser(p)
    \/ CreateAuditLog(p)
    \/ TxCommit(p)
    \/ StepFailed(p)

(***************************************************************************)
(* LookupAccount (account_service.go:26-62), one action per query.         *)
(***************************************************************************)
\* user, err := s.getUserByEmail(ctx, email): a row, or sql.ErrNoRows
LookupGetUser(email) ==
    /\ lk.pc \in {"idle", "done"}
    /\ lk.n < MaxLookups
    /\ LET found == getUserByEmail(db, email)
           base  == [IdleLookup EXCEPT !.email = email, !.n = lk.n + 1,
                                       !.epoch0 = epoch, !.dbU = db.user]
       IN IF found = {}
          THEN lk' = [base EXCEPT !.pc = "done", !.status = "NotFound"]
          ELSE \E u \in found : lk' = [base EXCEPT !.pc = "groups", !.user = u]
    /\ UNCHANGED <<db, st, clock, epoch, calls>>

\* the user query fails in the storage layer
LookupGetUserFailed(email) ==
    /\ lk.pc \in {"idle", "done"}
    /\ lk.n < MaxLookups
    /\ lk' = [IdleLookup EXCEPT !.email = email, !.n = lk.n + 1, !.epoch0 = epoch,
                                !.dbU = db.user,
                                !.pc = "done", !.status = "QueryFailed"]
    /\ UNCHANGED <<db, st, clock, epoch, calls>>

\* groups, err := s.getGroupsByOwner(ctx, user.ID)
LookupGetGroups ==
    /\ lk.pc = "groups"
    /\ LET gs == getGroupsByOwner(db, lk.user)
       IN lk' = [lk EXCEPT !.groups = gs, !.dbG = db.groups,
                           !.pc = IF gs = <<>> THEN "done" ELSE "companyCount",
                           !.status = IF gs = <<>> THEN "ok" ELSE "",
                           !.clean = (epoch = lk.epoch0)]
    /\ UNCHANGED <<db, st, clock, epoch, calls>>

\* getHierarchyCounts, first query
LookupCompanyCount ==
    /\ lk.pc = "companyCount"
    /\ lk' = [lk EXCEPT !.cc = companyCount(db, lk.groups[lk.i]),
                        !.pc = "locationCount"]
    /\ UNCHANGED <<db, st, clock, epoch, calls>>

\* getHierarchyCounts, second query; append the GroupInfo; next group
LookupLocationCount ==
    /\ lk.pc = "locationCount"
    /\ lk' = [lk EXCEPT
                !.infos = Append(@, [ID            |-> lk.groups[lk.i],
                                     CompanyCount  |-> lk.cc,
                                     LocationCount |-> locationCount(db, lk.groups[lk.i])]),
                !.i = @ + 1,
                !.pc = IF lk.i = Len(lk.groups) THEN "done" ELSE "companyCount",
                !.status = IF lk.i = Len(lk.groups) THEN "ok" ELSE "",
                !.clean = (epoch = lk.epoch0)]
    /\ UNCHANGED <<db, st, clock, epoch, calls>>

\* the groups query or a count query fails in the storage layer
LookupQueryFailed ==
    /\ lk.pc \in {"groups", "companyCount", "locationCount"}
    /\ lk' = [lk EXCEPT !.pc = "done", !.status = "QueryFailed",
                        !.infos = <<>>, !.groups = <<>>]
    /\ UNCHANGED <<db, st, clock, epoch, calls>>

LookupAccount ==
    \/ \E email \in LookupEmails : LookupGetUser(email)
    \/ \E email \in LookupEmails : LookupGetUserFailed(email)
    \/ LookupGetGroups
    \/ LookupCompanyCount
    \/ LookupLocationCount
    \/ LookupQueryFailed

(***************************************************************************)
(* HTTP boundary: AuthMiddleware and AccountHandler.HandleDelete.          *)
(***************************************************************************)

\* HandleLookup: the status it answers for the outcome of LookupAccount:
\* 404 for every error, else 200
HandleLookup(status) == IF status = "ok" THEN StatusOK ELSE StatusNotFound

\* JSON bodies a caller may post to /api/account/delete: well-formed bodies
\* for one or two groups, with deleted_by absent or set by the caller, ...
GoodPayloads ==
    [Email       : {UserEmail("u1")},
     UserID      : {"u1"},
     hasGroupIDs : {TRUE},
     GroupIDs    : {<<"g1">>, <<"g1", "g2">>},
     Reason      : {""},
     DeletedBy   : {"", "mallory@evil.com"}]

\* ... and bodies with one defect: group_ids absent or empty, the e-mail
\* address absent or without a domain, the user id absent
BadPayloads ==
    [Email       : {UserEmail("u1")},
     UserID      : {"u1"},
     hasGroupIDs : BOOLEAN,
     GroupIDs    : {<<>>},
     Reason      : {""},
     DeletedBy   : {"", "mallory@evil.com"}]
    \cup
    {[Email |-> e, UserID |-> "u1", hasGroupIDs |-> TRUE, GroupIDs |-> <<"g1">>,
      Reason |-> "", DeletedBy |-> ""] : e \in {<<>>, <<"a">>}}
    \cup
    {[Email |-> UserEmail("u1"), UserID |-> "", hasGroupIDs |-> TRUE,
      GroupIDs |-> <<"g1">>, Reason |-> "", DeletedBy |-> ""]}

DeletePayloads == GoodPayloads \cup BadPayloads

\* what AuthMiddleware puts in the request context as user_email: the e-mail
\* claim of a valid token, or nothing (NULL) when the Authorization header is
\* missing or the token is invalid
Tokens == {"amy@appointy.com", "bob@appointy.com", NULL}

\* binding tag `email`: a local part and a domain
IsEmail(e) == Len(e) = 2

ShouldBindDeleteNoMin(b) ==
    /\ b.Email /= <<>> /\ IsEmail(b.Email)
    /\ b.UserID /= ""
    /\ b.hasGroupIDs

\* c.ShouldBindJSON(&req) succeeds: email required,email; user_id required;
\* group_ids required,min=1
ShouldBindDelete(b) ==
    /\ b.Email /= <<>> /\ IsEmail(b.Email)
    /\ b.UserID /= ""
    /\ b.hasGroupIDs /\ Len(b.GroupIDs) >= 1

BindDeleteKeepsPayload(b, deletedBy) ==
    [Email |-> b.Email, UserID |-> b.UserID, GroupIDs |-> b.GroupIDs,
     Reason |-> b.Reason,
     DeletedBy |-> IF b.DeletedBy /= "" THEN b.DeletedBy ELSE deletedBy]

\* the request handed to DeleteAccount: the bound body with
\* req.DeletedBy = deletedBy
BindDelete(b, deletedBy) ==
    [Email |-> b.Email, UserID |-> b.UserID, GroupIDs |-> b.GroupIDs,
     Reason |-> b.Reason, DeletedBy |-> deletedBy]

Answer(p, code, b, email) ==
    [http EXCEPT !.del[p] = [code |-> code, payload |-> b, email |-> email]]

\* AuthMiddleware aborts the request: 401, the handler does not run
DeleteUnauthorized(p, b) ==
    /\ st[p].pc \in {"idle", "done"}
    /\ http' = Answer(p, StatusUnauthorized, b, NULL)
    /\ UNCHANGED <<db, st, lk, clock, epoch, calls>>

\* ShouldBindJSON fails: 400
DeleteBadRequest(p, b, email) ==
    /\ st[p].pc \in {"idle", "done"}
    /\ email /= NULL
    /\ ~ShouldBindDelete(b)
    /\ http' = Answer(p, StatusBadRequest, b, email)
    /\ UNCHANGED <<db, st, lk, clock, epoch, calls>>

\* the body binds, req.DeletedBy is set from the context, DeleteAccount is
\* called and begins its transaction
DeleteAccepted(p, b, email) ==
    /\ email /= NULL
    /\ ShouldBindDelete(b)
    /\ BeginTx(p, BindDelete(b, email))
    /\ http' = Answer(p, 0, b, email)

\* ... or fails to begin it: 500
DeleteNotBegun(p, b, email) ==
    /\ email /= NULL
    /\ ShouldBindDelete(b)
    /\ BeginTxFailed(p, BindDelete(b, email))
    /\ http' = Answer(p, StatusInternalServerError, b, email)

\* DeleteAccount runs one statement
DeleteStep(p) ==
    /\ \/ GetCompanies(p)
       \/ GetLocations(p)
       \/ SoftDeleteLocation(p)
       \/ SoftDeleteCompany(p)
       \/ SoftDeleteGroup(p)
       \/ SoftDeleteUser(p)
       \/ CreateAuditLog(p)
    /\ UNCHANGED http

\* DeleteAccount returns the response: 200
DeleteOK(p) ==
    /\ TxCommit(p)
    /\ http' = [http EXCEPT !.del[p].code = StatusOK]

\* DeleteAccount returns an error: 500
DeleteError(p) ==
    /\ StepFailed(p)
    /\ http' = [http EXCEPT !.del[p].code = StatusInternalServerError]

HandleDelete(p) ==
    \/ \E b \in DeletePayloads : DeleteUnauthorized(p, b)
    \/ \E b \in DeletePayloads, email \in Tokens : DeleteBadRequest(p, b, email)
    \/ \E b \in DeletePayloads, email \in Tokens : DeleteAccepted(p, b, email)
    \/ \E b \in DeletePayloads, email \in Tokens : DeleteNotBegun(p, b, email)
    \/ DeleteStep(p)
    \/ DeleteOK(p)
    \/ DeleteError(p)

(***************************************************************************)
(* HTTP boundary: AccountHandler.HandleGetAuditLogs and GetAuditLogs.      *)
(***************************************************************************)
DefaultLimit == 50
MaxLimit == 100
DefaultOffset == 0
\* decimal digits of the largest int (64 bits)
IntDigits == 19

Digits == {"0", "1", "2", "3", "4", "5", "6", "7", "8", "9"}

DigitVal(ch) ==
    CASE ch = "0" -> 0 [] ch = "1" -> 1 [] ch = "2" -> 2 [] ch = "3" -> 3
      [] ch = "4" -> 4 [] ch = "5" -> 5 [] ch = "6" -> 6 [] ch = "7" -> 7
      [] ch = "8" -> 8 [] OTHER -> 9

RECURSIVE DigitsValue(_)
DigitsValue(d) ==
    IF d = <<>> THEN 0
    ELSE 10 * DigitsValue(SubSeq(d, 1, Len(d) - 1)) + DigitVal(d[Len(d)])

RECURSIVE StripZeros(_)
StripZeros(d) ==
    IF d /= <<>> /\ Head(d) = "0" THEN StripZeros(Tail(d)) ELSE d

\* strconv.Atoi: an optional sign, then decimal digits only, at least one;
\* a value that does not fit an int is a range error.  (Strings of 10 to
\* 19 significant digits are not among the inputs.)
Atoi(s) ==
    LET signed == s /= <<>> /\ s[1] \in {"+", "-"}
        d      == IF signed THEN Tail(s) ELSE s
        syntax == d = <<>> \/ \E i \in DOMAIN d : d[i] \notin Digits
        range  == ~syntax /\ Len(StripZeros(d)) > IntDigits
    IN IF syntax \/ range
       THEN [err |-> TRUE, n |-> 0]
       ELSE [err |-> FALSE,
             n   |-> IF signed /\ s[1] = "-" THEN 0 - DigitsValue(d) ELSE DigitsValue(d)]

\* c.DefaultQuery(key, def): the value of the key, def when the key is absent
DefaultQuery(q, def) == IF q.has THEN q.val ELSE def

ParseLimitClamps(q) ==
    LET r == Atoi(DefaultQuery(q, <<"5", "0">>))
    IN IF r.err \/ r.n <= 0 THEN DefaultLimit
       ELSE IF r.n > MaxLimit THEN MaxLimit ELSE r.n

\* limit, err := strconv.Atoi(limitStr)
\* if err != nil || limit <= 0 || limit > 100 { limit = 50 }
ParseLimit(q) ==
    LET r == Atoi(DefaultQuery(q, <<"5", "0">>))
    IN IF r.err \/ r.n <= 0 \/ r.n > MaxLimit THEN DefaultLimit ELSE r.n

\* offset, err := strconv.Atoi(offsetStr)
\* if err != nil || offset < 0 { offset = 0 }
ParseOffset(q) ==
    LET r == Atoi(DefaultQuery(q, <<"0">>))
    IN IF r.err \/ r.n < 0 THEN DefaultOffset ELSE r.n

\* values of a query parameter: empty, not a number, zero, negative, signed,
\* with leading zeros, small, at and above the maximum, large, and too large
\* for an int
QueryValues ==
    {<<>>, <<"a", "b", "c">>, <<"1", "e", "2">>, <<"-">>,
     <<"0">>, <<"-", "1">>, <<"-", "0">>, <<"+", "5">>, <<"0", "0", "7">>,
     <<"1">>, <<"2">>, <<"5", "0">>, <<"9", "9">>, <<"1", "0", "0">>, <<"1", "0", "1">>,
     <<"1", "0", "0", "0", "0", "0", "0">>,
     [i \in 1..20 |-> "9"]}

\* a query parameter: absent, or present with a value
QueryParams ==
    {[has |-> FALSE, val |-> <<>>]} \cup {[has |-> TRUE, val |-> v] : v \in QueryValues}

Param(v) == [has |-> TRUE, val |-> v]
NoParam == [has |-> FALSE, val |-> <<>>]

\* the rows of the audit log in an order the database may return them for
\* ORDER BY created_at DESC: rows of equal created_at come in any order
OrderByCreatedAtDesc(log) ==
    {o \in Orders(DOMAIN log) :
        \A i, j \in DOMAIN o : i < j => log[o[i]].created_at >= log[o[j]].created_at}

Min(a, b) == IF a < b THEN a ELSE b

\* LIMIT $1 OFFSET $2 on an ordered list of rows
LimitOffset(o, limit, offset) == SubSeq(o, offset + 1, Min(offset + limit, Len(o)))

\* the columns GetAuditLogs selects
AuditLogOf(e) ==
    [Action |-> e.action, DeletedByEmail |-> e.deleted_by_email,
     TargetEmail |-> e.target_email, TargetUserID |-> e.target_user_id,
     GroupIDs |-> e.group_ids, Reason |-> e.reason, CreatedAt |-> e.created_at]

\* GetAuditLogs(limit, offset): the row numbers the query may return
GetAuditLogs(dbv, limit, offset) ==
    {LimitOffset(o, limit, offset) : o \in OrderByCreatedAtDesc(dbv.audit)}

GetAuditLogsOKConsumes(limitQ, offsetQ) ==
    /\ LET limit  == ParseLimit(limitQ)
           offset == ParseOffset(offsetQ)
       IN \E rows \in GetAuditLogs(db, limit, offset) :
            /\ http' = [http EXCEPT !.logs = Append(@,
                        [code |-> StatusOK, limitQ |-> limitQ, offsetQ |-> offsetQ,
                         limit |-> limit, offset |-> offset, rows |-> rows,
                         logs |-> [k \in DOMAIN rows |-> AuditLogOf(db.audit[rows[k]])]])]
            /\ db' = [db EXCEPT !.audit = SelectSeq(@, LAMBDA e : FALSE)]
    /\ UNCHANGED <<st, lk, clock, epoch, calls>>

\* HandleGetAuditLogs answers 200 with the page; rows (history) are the row
\* numbers of the entries of the page
GetAuditLogsOK(limitQ, offsetQ) ==
    /\ LET limit  == ParseLimit(limitQ)
           offset == ParseOffset(offsetQ)
       IN \E rows \in GetAuditLogs(db, limit, offset) :
            http' = [http EXCEPT !.logs = Append(@,
                        [code |-> StatusOK, limitQ |-> limitQ, offsetQ |-> offsetQ,
                         limit |-> limit, offset |-> offset, rows |-> rows,
                         logs |-> [k \in DOMAIN rows |-> AuditLogOf(db.audit[rows[k]])]])]
    /\ UNCHANGED <<db, st, lk, clock, epoch, calls>>

\* the query fails: 500
GetAuditLogsError(limitQ, offsetQ) ==
    /\ http' = [http EXCEPT !.logs = Append(@,
                  [code |-> StatusInternalServerError, limitQ |-> limitQ,
                   offsetQ |-> offsetQ, limit |-> ParseLimit(limitQ),
                   offset |-> ParseOffset(offsetQ), rows |-> <<>>, logs |-> <<>>])]
    /\ UNCHANGED <<db, st, lk, clock, epoch, calls>>

HandleGetAuditLogs(limitQ, offsetQ) ==
    \/ GetAuditLogsOK(limitQ, offsetQ)
    \/ GetAuditLogsError(limitQ, offsetQ)

(***************************************************************************)
(* Protected routes: AuthMiddleware, then the handler (main.go:158-166).   *)
(***************************************************************************)
\* a request to a protected route arrives and AuthMiddleware runs: it answers
\* 401 and aborts, or sets user_email and lets the handler run
Admit(route, h) ==
    /\ st["p1"].pc \notin InFlight
    /\ lk.pc \in {"idle", "done"}
    /\ LET r == AuthMiddleware(h, clock)
           k == IF r.code = StatusUnauthorized THEN 1 ELSE 0
       IN /\ http.req.rejected + k <= MaxRejected
          /\ http' = [http EXCEPT !.req =
                    [route |-> route, header |-> h, code |-> r.code, email |-> r.email,
                     calls0 |-> calls, n0 |-> lk.n, logs0 |-> Len(http.logs),
                     del0 |-> http.del["p1"], now |-> clock,
                     rejected |-> http.req.rejected + k]]
    /\ UNCHANGED <<db, st, lk, clock, epoch, calls>>

\* the handler of the route has been let run by AuthMiddleware and has not
\* started yet
Admitted(route) ==
    /\ http.req.code = 0
    /\ http.req.route = route
    /\ calls = http.req.calls0
    /\ lk.n = http.req.n0
    /\ Len(http.logs) = http.req.logs0
    /\ http.del["p1"] = http.req.del0

\* HandleDelete starts for the admitted request
AdmittedDelete(b) ==
    /\ Admitted("delete")
    /\ calls < MaxCallsLookup
    /\ \/ DeleteBadRequest("p1", b, http.req.email)
       \/ DeleteAccepted("p1", b, http.req.email)
       \/ DeleteNotBegun("p1", b, http.req.email)

\* HandleLookup starts for the admitted request
AdmittedLookup(email) ==
    /\ Admitted("lookup")
    /\ LookupGetUser(email) \/ LookupGetUserFailed(email)
    /\ UNCHANGED http

\* HandleGetAuditLogs runs for the admitted request
AdmittedGetAuditLogs ==
    /\ Admitted("audit-logs")
    /\ Len(http.logs) < MaxQueryReads
    /\ HandleGetAuditLogs(NoParam, NoParam)

\* a handler that has started runs on
HandlerStep ==
    \/ DeleteStep("p1")
    \/ DeleteOK("p1")
    \/ DeleteError("p1")
    \/ /\ \/ LookupGetGroups
          \/ LookupCompanyCount
          \/ LookupLocationCount
          \/ LookupQueryFailed
       /\ UNCHANGED http

(***************************************************************************)
(* OAuth: AuthHandler.HandleLogin and HandleCallback (part_001).  The      *)
(* sessions map is a plain Go map, no lock guards it, and every request    *)
(* runs on its own goroutine: an access to the map takes time, so it is    *)
(* modelled by the step that ends it, with the goroutine resting in a pc   *)
(* of MapAccess while the access is under way.                             *)
(***************************************************************************)
\* values generateRandomState returns
AuthStates == {"s1", "s2"}
\* state parameters a callback request may carry: a generated state, one
\* nobody generated, none
CallbackStates == AuthStates \cup {"forged", ""}

\* what Google may report for the account of a code
UserInfos ==
    [Email : {"amy@appointy.com", "Bob@APPOINTY.COM", "eve@gmail.com",
              "eve@appointy.com.evil.org"},
     VerifiedEmail : BOOLEAN]

\* pcs in which a goroutine is inside an access to h.sessions, and those of
\* them that write the map
MapAccess == {"storing", "lookup", "deleting"}
MapWrite == {"storing", "deleting"}

\* HandleLogin: generateRandomState succeeds, h.sessions[state] = "pending"
\* begins
LoginBegin(p, state) ==
    /\ ~http.auth.fatal
    /\ http.auth.h[p].pc \in {"idle", "done"}
    /\ http.auth.logins < MaxLogins
    /\ state \notin http.auth.issued
    /\ http' = [http EXCEPT !.auth.h[p] = [IdleAuthCall EXCEPT !.pc = "storing", !.state = state],
                            !.auth.issued = @ \cup {state},
                            !.auth.logins = @ + 1]
    /\ UNCHANGED <<db, st, lk, clock, epoch, calls>>

\* generateRandomState fails: 500
LoginRandFailed(p) ==
    /\ ~http.auth.fatal
    /\ http.auth.h[p].pc \in {"idle", "done"}
    /\ http.auth.logins < MaxLogins
    /\ http' = [http EXCEPT !.auth.h[p] = [IdleAuthCall EXCEPT !.pc = "done",
                                              !.code = StatusInternalServerError],
                            !.auth.logins = @ + 1]
    /\ UNCHANGED <<db, st, lk, clock, epoch, calls>>

\* the store ends: the state is in the map; 200 with the login URL
LoginStored(p) ==
    /\ ~http.auth.fatal
    /\ http.auth.h[p].pc = "storing"
    /\ http' = [http EXCEPT !.auth.sessions = @ \cup {http.auth.h[p].state},
                            !.auth.h[p].pc = "done",
                            !.auth.h[p].code = StatusOK]
    /\ UNCHANGED <<db, st, lk, clock, epoch, calls>>

\* HandleCallback: code == "": 400
CallbackNoCode(p, state) ==
    /\ ~http.auth.fatal
    /\ http.auth.h[p].pc \in {"idle", "done"}
    /\ http.auth.callbacks < MaxCallbacks
    /\ http' = [http EXCEPT !.auth.h[p] = [IdleAuthCall EXCEPT !.pc = "done", !.state = state,
                                              !.code = StatusBadRequest],
                            !.auth.callbacks = @ + 1]
    /\ UNCHANGED <<db, st, lk, clock, epoch, calls>>

\* HandleCallback with a code: the lookup h.sessions[state] begins
CallbackBegin(p, state) ==
    /\ ~http.auth.fatal
    /\ http.auth.h[p].pc \in {"idle", "done"}
    /\ http.auth.callbacks < MaxCallbacks
    /\ http' = [http EXCEPT !.auth.h[p] = [IdleAuthCall EXCEPT !.pc = "lookup", !.state = state],
                            !.auth.callbacks = @ + 1]
    /\ UNCHANGED <<db, st, lk, clock, epoch, calls>>

\* the lookup ends: the state is not in the map: 400; it is: the state is
\* accepted and delete(h.sessions, state) begins
CallbackLookedUp(p) ==
    /\ ~http.auth.fatal
    /\ http.auth.h[p].pc = "lookup"
    /\ IF http.auth.h[p].state \in http.auth.sessions
       THEN http' = [http EXCEPT !.auth.h[p].pc = "deleting",
                                 !.auth.accepted = Append(@, http.auth.h[p].state)]
       ELSE http' = [http EXCEPT !.auth.h[p].pc = "done",
                                 !.auth.h[p].code = StatusBadRequest]
    /\ UNCHANGED <<db, st, lk, clock, epoch, calls>>

\* the delete ends: the state is no longer in the map
CallbackDeleted(p) ==
    /\ ~http.auth.fatal
    /\ http.auth.h[p].pc = "deleting"
    /\ http' = [http EXCEPT !.auth.sessions = @ \ {http.auth.h[p].state},
                            !.auth.h[p].pc = "exchange"]
    /\ UNCHANGED <<db, st, lk, clock, epoch, calls>>

\* ExchangeCode or GetUserInfo fails: 500
CallbackGoogleFailed(p) ==
    /\ ~http.auth.fatal
    /\ http.auth.h[p].pc = "exchange"
    /\ http' = [http EXCEPT !.auth.h[p].pc = "done",
                            !.auth.h[p].code = StatusInternalServerError]
    /\ UNCHANGED <<db, st, lk, clock, epoch, calls>>

\* Google answers with the account: 403 unless the address passes
\* ValidateAppointyEmail, 403 unless it is verified, else GenerateJWT and 200
\* with the token
CallbackAnswered(p, userInfo) ==
    /\ ~http.auth.fatal
    /\ http.auth.h[p].pc = "exchange"
    /\ IF ~ValidateAppointyEmail(userInfo.Email) \/ ~userInfo.VerifiedEmail
       THEN http' = [http EXCEPT !.auth.h[p].pc = "done",
                                 !.auth.h[p].userInfo = userInfo,
                                 !.auth.h[p].code = StatusForbidden]
       ELSE http' = [http EXCEPT !.auth.h[p].pc = "done",
                                 !.auth.h[p].userInfo = userInfo,
                                 !.auth.h[p].code = StatusOK,
                                 !.auth.tokens = Append(@,
                                     [token |-> Jwt("HS256", JWTSecret, clock + TokenLifetime,
                                                    clock, userInfo.Email),
                                      state |-> http.auth.h[p].state,
                                      userInfo |-> userInfo])]
    /\ UNCHANGED <<db, st, lk, clock, epoch, calls>>

\* two goroutines are inside accesses to the map and one of them writes it
MapRace ==
    \E p, q \in Procs :
        /\ p /= q
        /\ http.auth.h[p].pc \in MapWrite
        /\ http.auth.h[q].pc \in MapAccess

\* a data race on the map: besides the outcomes in which each access takes
\* effect when it ends, the runtime may detect it and stop the process
\* ("fatal error: concurrent map writes")
MapFatal ==
    /\ ~http.auth.fatal
    /\ MapRace
    /\ http' = [http EXCEPT !.auth.fatal = TRUE]
    /\ UNCHANGED <<db, st, lk, clock, epoch, calls>>

HandleLogin(p) ==
    \/ \E state \in AuthStates : LoginBegin(p, state)
    \/ LoginRandFailed(p)
    \/ LoginStored(p)

HandleCallback(p) ==
    \/ \E state \in CallbackStates : CallbackNoCode(p, state)
    \/ \E state \in CallbackStates : CallbackBegin(p, state)
    \/ CallbackLookedUp(p)
    \/ CallbackDeleted(p)
    \/ CallbackGoogleFailed(p)
    \/ \E userInfo \in UserInfos : CallbackAnswered(p, userInfo)

(***************************************************************************)
(* Specifications.                                                         *)
(*   Spec        concurrent DeleteAccount requests                         *)
(*   SpecLookup  one request goroutine and the reader, interleaved         *)
(***************************************************************************)
Next == (\E p \in Procs : DeleteAccount(p)) /\ UNCHANGED http

Spec == Init /\ [][Next]_vars

NextLookup ==
    /\ \/ (calls < MaxCallsLookup /\ DeleteAccount("p1"))
       \/ (st["p1"].pc \in InFlight /\ DeleteAccount("p1"))
       \/ LookupAccount
    /\ UNCHANGED http

SpecLookup == Init /\ [][NextLookup]_vars

\* SpecCounter: lookups over a store in which external systems have
\* soft-deleted any companies and locations, also a company without its
\* locations
CounterDeleted == SUBSET (CompanyIds \cup LocationIds)

InitCounter ==
    /\ \E pre \in CounterDeleted : db = InitDb(pre)
    /\ st = [p \in Procs |-> IdleCall]
    /\ lk = IdleLookup
    /\ clock = 2
    /\ epoch = 0
    /\ calls = 0
    /\ http = IdleHttp

NextCounter == LookupAccount /\ UNCHANGED http

SpecCounter == InitCounter /\ [][NextCounter]_vars

\* SpecHandler: requests through the HTTP boundary, one request goroutine
NextHandler == HandleDelete("p1")

SpecHandler == Init /\ [][NextHandler]_vars

\* SpecQuery: one audit-log request with any query parameters
NextQuery ==
    /\ Len(http.logs) < MaxQueryReads
    /\ \E limitQ, offsetQ \in QueryParams : HandleGetAuditLogs(limitQ, offsetQ)

SpecQuery == Init /\ [][NextQuery]_vars

\* SpecAudit: pages of an audit log that earlier deletions have written; an
\* entry's created_at is the time.Now() of its request, so entries are in any
\* order of created_at and concurrent requests may have written equal ones
AuditTimes == 1..MaxAuditRows

AuditRow(t) ==
    createAuditLog([Email |-> UserEmail("u2"), UserID |-> "u2", GroupIDs |-> <<"g3">>,
                    Reason |-> "", DeletedBy |-> "amy@appointy.com"], 1, 1, 1, t).entry

AuditTables ==
    UNION {[1..n -> {AuditRow(t) : t \in AuditTimes}] : n \in 0..MaxAuditRows}

InitAudit ==
    /\ \E log \in AuditTables : db = [InitDb({"g3", "c2", "l3"}) EXCEPT !.audit = log]
    /\ st = [p \in Procs |-> IdleCall]
    /\ lk = IdleLookup
    /\ clock = MaxAuditRows + 1
    /\ epoch = 0
    /\ calls = 0
    /\ http = IdleHttp

\* the pages a client asks for
PageLimits == {Param(<<"1">>), Param(<<"2">>)}
PageOffsets == {Param(<<"0">>), Param(<<"2">>)}

NextAudit ==
    /\ Len(http.logs) < MaxLogReads
    /\ \E limitQ \in PageLimits, offsetQ \in PageOffsets :
         HandleGetAuditLogs(limitQ, offsetQ)

SpecAudit == InitAudit /\ [][NextAudit]_vars

\* SpecAppend: well-formed delete requests of one administrator on one
\* request goroutine, a lookup and an audit-log request without query
\* parameters, interleaved
NextAppend ==
    \/ \E b \in {g \in GoodPayloads : g.DeletedBy = ""} :
         \/ DeleteAccepted("p1", b, "amy@appointy.com")
         \/ DeleteNotBegun("p1", b, "amy@appointy.com")
    \/ DeleteStep("p1")
    \/ DeleteOK("p1")
    \/ DeleteError("p1")
    \/ LookupAccount /\ UNCHANGED http
    \/ Len(http.logs) < MaxQueryReads /\ HandleGetAuditLogs(NoParam, NoParam)

SpecAppend == Init /\ [][NextAppend]_vars

\* SpecAuth: requests to the protected routes with any Authorization header,
\* one request at a time
NextAuth ==
    \/ \E route \in Routes, h \in AuthHeaders : Admit(route, h)
    \/ \E b \in {d \in DeletePayloads : /\ d.DeletedBy = "" /\ d.hasGroupIDs
                                        /\ d.Email = UserEmail("u1") /\ d.UserID = "u1"
                                        /\ Len(d.GroupIDs) <= 1} :
         AdmittedDelete(b)
    \/ \E email \in {<<"a", "x">>, <<"z", "x">>} : AdmittedLookup(email)
    \/ AdmittedGetAuditLogs
    \/ HandlerStep

InitAuth ==
    /\ db = InitDb({})
    /\ st = [p \in Procs |-> IdleCall]
    /\ lk = IdleLookup
    /\ clock = 2
    /\ epoch = 0
    /\ calls = 0
    /\ http = IdleHttp

SpecAuth == InitAuth /\ [][NextAuth]_vars

\* SpecOAuth: concurrent login and callback requests
NextOAuth ==
    \/ \E p \in Procs : HandleLogin(p)
    \/ \E p \in Procs : HandleCallback(p)
    \/ MapFatal

SpecOAuth == InitAuth /\ [][NextOAuth]_vars

(***************************************************************************)
(* Properties.                                                             *)
(***************************************************************************)
\* the step is the return of p's DeleteAccount call
Returned(p) ==
    /\ st'[p].pc = "done"
    /\ st[p].pc \in InFlight \/ calls' = calls + 1

HierarchyTables == {"user", "groups", "company", "location"}

\* number of rows of a table that are live in dbv and soft-deleted in dbw
Flipped(dbv, dbw, tbl) ==
    Cardinality({id \in DOMAIN dbv[tbl] :
        IsLive(dbv[tbl][id]) /\ dbw[tbl][id].is_deleted = "true"})

IsDeleted(row) == row.is_deleted = "true"

\* C1: when a DeleteAccount call returns because a step failed, the committed
\* database (four tables and audit log) is what it was before the step, and
\* what it was when the call started unless another request committed in
\* between; the caller gets an error and a nil response.
RollbackAtomicity ==
    [][\A p \in Procs :
         (Returned(p) /\ ~st'[p].resp.Success) =>
            /\ db' = db
            /\ (epoch = st'[p].epoch0 => db' = st'[p].db0)
            /\ st'[p].resp = NilResp
            /\ st'[p].err /= ""]_vars

\* a call failed at the audit insert, after it had issued its soft-deletes of
\* g1's hierarchy and of the user, and the database is as it was at its start
RollbackAtomicityWitness ==
    \E p \in Procs :
        /\ st[p].pc = "done"
        /\ st[p].err = "AuditWriteFailed"
        /\ st[p].req.GroupIDs = <<"g1">>
        /\ st[p].req.UserID = "u1"
        /\ st[p].deletedLocations = 2
        /\ db = st[p].db0
        /\ IsLive(db.user["u1"])

\* C2: the number of audit entries equals the number of committed
\* DeleteAccount calls.
AuditCountEqualsCommits == Len(db.audit) = epoch

\* one call committed and another one failed at its commit, after its audit
\* insert
AuditCountWitness ==
    /\ epoch = 1
    /\ Len(db.audit) = 1
    /\ \E p, q \in Procs :
         /\ st[p].pc = "done" /\ st[p].resp.Success
         /\ st[q].pc = "done" /\ st[q].err = "CommitFailed"

\* C3: the three counts of a successful call, in the response and in its audit
\* entry, equal the numbers of group, company and location rows the commit
\* flipped from live to deleted.
CountsEqualFlippedRows ==
    [][\A p \in Procs :
         (Returned(p) /\ st'[p].resp.Success) =>
            LET e == db'.audit[Len(db'.audit)]
            IN /\ st'[p].resp.DeletedGroups = Flipped(db, db', "groups")
               /\ st'[p].resp.DeletedCompanies = Flipped(db, db', "company")
               /\ st'[p].resp.DeletedLocations = Flipped(db, db', "location")
               /\ e.deleted_groups = Flipped(db, db', "groups")
               /\ e.deleted_companies = Flipped(db, db', "company")
               /\ e.deleted_locations = Flipped(db, db', "location")]_vars

\* sum of a count field over the preview entries of the groups in ids
RECURSIVE SumOver(_, _, _)
SumOver(infos, ids, field) ==
    IF infos = <<>> THEN 0
    ELSE (IF \E k \in DOMAIN ids : ids[k] = Head(infos).ID
          THEN Head(infos)[field] ELSE 0)
         + SumOver(Tail(infos), ids, field)

Distinct(ids) == \A i, j \in DOMAIN ids : i /= j => ids[i] /= ids[j]

\* C4: a DeleteAccount call that follows a successful LookupAccount with no
\* commit in between, and asks for distinct groups of the preview, reports the
\* number of those groups and the sums of their previewed counts.
PreviewMatchesDeletion ==
    [][\A p \in Procs :
         LET prev == st'[p].lk0
             ids  == st'[p].req.GroupIDs
         IN (/\ Returned(p) /\ st'[p].resp.Success
             /\ prev.pc = "done" /\ prev.status = "ok" /\ prev.clean
             /\ prev.epoch0 = epoch
             /\ Distinct(ids)
             /\ \A k \in DOMAIN ids : \E i \in DOMAIN prev.infos : prev.infos[i].ID = ids[k])
            =>
            /\ st'[p].resp.DeletedGroups = Len(ids)
            /\ st'[p].resp.DeletedCompanies = SumOver(prev.infos, ids, "CompanyCount")
            /\ st'[p].resp.DeletedLocations = SumOver(prev.infos, ids, "LocationCount")]_vars

\* the preview showed g1 with 1 company and 2 locations and g2 with none, and
\* deleting only g1 reported 1/1/2
PreviewMatchesDeletionWitness ==
    /\ st["p1"].pc = "done"
    /\ st["p1"].resp.Success
    /\ st["p1"].req.GroupIDs = <<"g1">>
    /\ st["p1"].lk0.status = "ok"
    /\ st["p1"].lk0.infos = <<[ID |-> "g2", CompanyCount |-> 0, LocationCount |-> 0],
                              [ID |-> "g1", CompanyCount |-> 1, LocationCount |-> 2]>>
    /\ st["p1"].resp.DeletedGroups = 1
    /\ st["p1"].resp.DeletedCompanies = 1
    /\ st["p1"].resp.DeletedLocations = 2

InList(ids, g) == \E k \in DOMAIN ids : ids[k] = g

\* C5: the commit of a DeleteAccount call changes no group outside the
\* requested ids, no company or location outside their hierarchy, and no user
\* but the target; when no other request committed during the call, the
\* companies and locations it changes were live.
DeleteFrame ==
    [][\A p \in Procs :
         (Returned(p) /\ st'[p].resp.Success) =>
            LET ids == st'[p].req.GroupIDs
            IN /\ \A g \in DOMAIN db.groups :
                    ~InList(ids, g) => db'.groups[g] = db.groups[g]
               /\ \A c \in DOMAIN db.company :
                    (~InList(ids, db.company[c].parent)
                       \/ (epoch = st'[p].epoch0 /\ IsDeleted(db.company[c])))
                    => db'.company[c] = db.company[c]
               /\ \A l \in DOMAIN db.location :
                    (~InList(ids, db.company[db.location[l].parent].parent)
                       \/ (epoch = st'[p].epoch0 /\ IsDeleted(db.location[l])))
                    => db'.location[l] = db.location[l]
               /\ \A u \in DOMAIN db.user :
                    u /= st'[p].req.UserID => db'.user[u] = db.user[u]
               /\ DOMAIN db'.groups = DOMAIN db.groups
               /\ DOMAIN db'.company = DOMAIN db.company
               /\ DOMAIN db'.location = DOMAIN db.location
               /\ DOMAIN db'.user = DOMAIN db.user]_vars

\* a call deleted only g1: c1 carries its timestamp, g2 and the other user's
\* hierarchy are live and untouched
DeleteFrameWitness ==
    \E p \in Procs :
        /\ st[p].pc = "done"
        /\ st[p].resp.Success
        /\ st[p].req.GroupIDs = <<"g1">>
        /\ db.company["c1"].deleted_on = st[p].now
        /\ db.location["l1"].deleted_on = st[p].now
        /\ db.user["u1"].deleted_on = st[p].now
        /\ db.groups["g2"] = st[p].db0.groups["g2"]
        /\ IsLive(db.groups["g2"])
        /\ IsLive(db.groups["g3"])
        /\ IsLive(db.company["c2"])
        /\ IsLive(db.location["l3"])

\* C6: after a successful DeleteAccount call the user row with the requested
\* id is soft-deleted, and a LookupAccount that starts later with that user's
\* e-mail address in any letter case never gets the row: it ends at its first
\* query, with NotFound unless the query itself failed.
DeletedUserNotFound ==
    \A p \in Procs :
        (st[p].pc = "done" /\ st[p].resp.Success /\ st[p].req.UserID \in DOMAIN db.user)
        =>
        LET u == st[p].req.UserID
        IN /\ IsDeleted(db.user[u])
           /\ (/\ lk.pc /= "idle"
               /\ lk.epoch0 >= st[p].epoch1
               /\ Lower(lk.email) = Lower(db.user[u].email))
              => /\ lk.pc = "done"
                 /\ lk.user = NULL
                 /\ lk.status \in {"NotFound", "QueryFailed"}

\* user u2, stored as B@x, was deleted and a later lookup of b@x got NotFound
DeletedUserNotFoundWitness ==
    /\ st["p1"].pc = "done"
    /\ st["p1"].resp.Success
    /\ st["p1"].req.UserID = "u2"
    /\ IsDeleted(db.user["u2"])
    /\ lk.pc = "done"
    /\ lk.epoch0 >= st["p1"].epoch1
    /\ lk.email = <<"b", "x">>
    /\ lk.status = "NotFound"

\* C7: when two DeleteAccount calls with the same single group id succeed one
\* after the other, every company under the group and every location under
\* those companies is soft-deleted, and the second call, which found the group
\* already deleted, still reports deletedGroups = 1.
SequentialRedeletion ==
    \A p, q \in Procs :
        (/\ p /= q
         /\ st[p].pc = "done" /\ st[p].resp.Success
         /\ st[q].pc = "done" /\ st[q].resp.Success
         /\ Len(st[p].req.GroupIDs) = 1
         /\ st[q].req.GroupIDs = st[p].req.GroupIDs
         /\ st[q].epoch0 >= st[p].epoch1)
        =>
        LET g == st[p].req.GroupIDs[1]
        IN /\ \A c \in DOMAIN db.company :
                db.company[c].parent = g => IsDeleted(db.company[c])
           /\ \A l \in DOMAIN db.location :
                db.company[db.location[l].parent].parent = g => IsDeleted(db.location[l])
           /\ \A c \in DOMAIN db.company :
                db.company[c].parent = g => IsDeleted(st[q].db0.company[c])
           /\ \A l \in DOMAIN db.location :
                db.company[db.location[l].parent].parent = g
                    => IsDeleted(st[q].db0.location[l])
           /\ st[q].resp.DeletedGroups = 1

\* g1 was deleted twice in sequence; the second run changed no company or
\* location and reported 1/0/0
SequentialRedeletionWitness ==
    \E p, q \in Procs :
        /\ p /= q
        /\ st[p].pc = "done" /\ st[p].resp.Success
        /\ st[q].pc = "done" /\ st[q].resp.Success
        /\ st[p].req.GroupIDs = <<"g1">>
        /\ st[q].req.GroupIDs = <<"g1">>
        /\ st[q].epoch0 >= st[p].epoch1
        /\ st[p].resp.DeletedLocations > 0
        /\ IsDeleted(st[q].db0.groups["g1"])
        /\ st[q].resp.DeletedGroups = 1
        /\ st[q].resp.DeletedCompanies = 0
        /\ st[q].resp.DeletedLocations = 0

\* C8: a commit leaves every row that was already soft-deleted as it was,
\* deleted_by and deleted_on included.
SoftDeleteOfDeletedRowIsNoOp ==
    [][\A p \in Procs :
         (Returned(p) /\ st'[p].resp.Success) =>
            \A tbl \in HierarchyTables : \A id \in DOMAIN db[tbl] :
                IsDeleted(db[tbl][id]) => db'[tbl][id] = db[tbl][id]]_vars

\* C9: no step of LookupAccount changes the database or a transaction, and a
\* lookup whose e-mail address matches no live user ends with NotFound unless
\* its query failed.
LookupReadOnly ==
    [][lk' /= lk =>
         /\ db' = db
         /\ st' = st
         /\ (/\ lk.pc \in {"idle", "done"}
             /\ ~\E u \in DOMAIN db.user :
                    Lower(db.user[u].email) = Lower(lk'.email) /\ ~IsDeleted(db.user[u])
             /\ lk'.status /= "QueryFailed")
            => (lk'.pc = "done" /\ lk'.status = "NotFound" /\ lk'.infos = <<>>)]_vars

\* a lookup of the e-mail address of a soft-deleted user ended with NotFound
\* and the database is as the deletion left it
LookupReadOnlyWitness ==
    /\ lk.pc = "done"
    /\ lk.status = "NotFound"
    /\ lk.email = <<"A", "X">>
    /\ IsDeleted(db.user["u1"])
    /\ st["p1"].pc = "done"
    /\ lk.epoch0 = st["p1"].epoch1

\* C10: a successful lookup returns a user that was live and matches the
\* e-mail address case-insensitively, and exactly the groups that were live
\* and created by that user when the group query ran, newest first, one
\* GroupInfo per group in the same order.
LookupReturnsLiveOwnedGroups ==
    (lk.pc = "done" /\ lk.status = "ok") =>
        /\ lk.user \in DOMAIN lk.dbU
        /\ Lower(lk.dbU[lk.user].email) = Lower(lk.email)
        /\ ~IsDeleted(lk.dbU[lk.user])
        /\ {lk.groups[i] : i \in DOMAIN lk.groups}
             = {g \in DOMAIN lk.dbG :
                  lk.dbG[g].created_by = lk.user /\ ~IsDeleted(lk.dbG[g])}
        /\ \A i, j \in DOMAIN lk.groups :
             i < j => lk.dbG[lk.groups[i]].created_on > lk.dbG[lk.groups[j]].created_on
        /\ Len(lk.infos) = Len(lk.groups)
        /\ \A i \in DOMAIN lk.infos : lk.infos[i].ID = lk.groups[i]

\* a lookup of A@X returned u1 with its two live groups, the newer g2 first
LookupReturnsLiveOwnedGroupsWitness ==
    /\ lk.pc = "done"
    /\ lk.status = "ok"
    /\ lk.email = <<"A", "X">>
    /\ lk.user = "u1"
    /\ lk.groups = <<"g2", "g1">>

\* C11: the company count a lookup attaches to a group is the number of
\* companies of that group that are not soft-deleted, and the location count is
\* the number of locations that are not soft-deleted and whose parent company
\* is a company of that group that is not soft-deleted.
HierarchyCounts ==
    [][/\ (lk.pc = "companyCount" /\ lk'.pc = "locationCount") =>
            lk'.cc = Cardinality({c \in CompanyIds :
                        db.company[c].parent = lk.groups[lk.i] /\ ~IsDeleted(db.company[c])})
       /\ (lk.pc = "locationCount" /\ lk'.status /= "QueryFailed") =>
            LET info == lk'.infos[Len(lk'.infos)]
                g    == lk.groups[lk.i]
            IN /\ Len(lk'.infos) = Len(lk.infos) + 1
               /\ info.ID = g
               /\ info.CompanyCount = lk.cc
               /\ info.LocationCount =
                    Cardinality({l \in LocationIds :
                        /\ ~IsDeleted(db.location[l])
                        /\ ~IsDeleted(db.company[db.location[l].parent])
                        /\ db.company[db.location[l].parent].parent = g})]_vars

\* company c2 is soft-deleted, its location l3 is not, and the lookup of their
\* owner reported group g3 with no company and no location
HierarchyCountsWitness ==
    /\ lk.pc = "done"
    /\ lk.status = "ok"
    /\ lk.user = "u2"
    /\ IsDeleted(db.company["c2"])
    /\ IsLive(db.location["l3"])
    /\ lk.infos = <<[ID |-> "g3", CompanyCount |-> 0, LocationCount |-> 0]>>

\* the step changes the committed state only as the commit of one request,
\* which applies every soft-delete the request issued and its audit entry
AtomicCommitStep ==
    db' /= db =>
        \E p \in Procs :
            /\ Returned(p) /\ st'[p].resp.Success
            /\ \A k \in DOMAIN st[p].tx :
                 LET s == st[p].tx[k]
                 IN (s.kind = "update" /\ s.id \in DOMAIN db[s.tbl]) =>
                        /\ IsDeleted(db'[s.tbl][s.id])
                        /\ db'[s.tbl][s.id].deleted_on = st[p].now
            /\ Len(db'.audit) = Len(db.audit) + 1
            /\ db'.audit[Len(db'.audit)].group_ids = st[p].req.GroupIDs

\* after the step, every company and location under a group requested by a
\* request that has committed is soft-deleted
CommittedHierarchyDeleted ==
    \A p \in Procs :
        (st'[p].pc = "done" /\ st'[p].resp.Success) =>
            /\ \A c \in DOMAIN db'.company :
                 InList(st'[p].req.GroupIDs, db'.company[c].parent)
                    => IsDeleted(db'.company[c])
            /\ \A l \in DOMAIN db'.location :
                 InList(st'[p].req.GroupIDs, db'.company[db'.location[l].parent].parent)
                    => IsDeleted(db'.location[l])

\* a request that commits after a concurrent request has soft-deleted all the
\* groups it names leaves the group, company and location tables as they are
SecondRunIsNoOp ==
    \A p \in Procs :
        (/\ Returned(p) /\ st'[p].resp.Success
         /\ st[p].epoch0 < epoch
         /\ \A k \in DOMAIN st[p].req.GroupIDs :
              /\ st[p].req.GroupIDs[k] \in DOMAIN db.groups
              /\ IsDeleted(db.groups[st[p].req.GroupIDs[k]])
              /\ IsLive(st[p].db0.groups[st[p].req.GroupIDs[k]]))
        => /\ db'.groups = db.groups
           /\ db'.company = db.company
           /\ db'.location = db.location

ConcurrentDeletesAtomic == [][AtomicCommitStep /\ CommittedHierarchyDeleted]_vars

\* C12: for any interleaving of concurrent DeleteAccount requests the committed
\* state changes only by whole requests (all soft-deletes plus the audit entry,
\* or nothing), the hierarchy under every group of a committed request is
\* soft-deleted, and the second of two concurrent deletions of the same group
\* is a no-op on the hierarchy tables.
ConcurrentDeletesConsistent ==
    [][AtomicCommitStep /\ CommittedHierarchyDeleted /\ SecondRunIsNoOp]_vars


\* C13: in every committed state no live location has a soft-deleted parent
\* company and no live company has a soft-deleted parent group.
NoLiveChildUnderDeletedParent ==
    /\ \A l \in DOMAIN db.location :
         IsLive(db.location[l]) => ~IsDeleted(db.company[db.location[l].parent])
    /\ \A c \in DOMAIN db.company :
         IsLive(db.company[c]) => ~IsDeleted(db.groups[db.company[c].parent])

\* a request for g1 has committed while another request, which had read the
\* children of g1 before that commit, is still in flight
NoLiveChildUnderDeletedParentWitness ==
    /\ epoch = 1
    /\ IsLive(st["p1"].db0.groups["g1"])
    /\ IsDeleted(db.groups["g1"]) /\ IsDeleted(db.company["c1"])
    /\ IsDeleted(db.location["l1"]) /\ IsDeleted(db.location["l2"])
    /\ st["p1"].pc = "done" /\ st["p1"].resp.Success
    /\ st["p2"].pc = "delCompany" /\ st["p2"].epoch0 = 0
    /\ Len(st["p2"].tx) = 2


\* C14: the actor a deletion records is the e-mail address the authentication
\* layer put in the request context: the request handed to DeleteAccount, every
\* statement it issues, every row its commit writes and its audit entry carry
\* that address, and bodies that differ only in deleted_by are handed to
\* DeleteAccount as the same request.
ActorIsAuthenticatedAdmin ==
    [][\A p \in Procs :
        LET h == http'.del[p] IN
        /\ st'[p].req /= st[p].req =>
             /\ h.email /= NULL
             /\ st'[p].req.DeletedBy = h.email
             /\ \A b \in DeletePayloads :
                  [b EXCEPT !.DeletedBy = ""] = [h.payload EXCEPT !.DeletedBy = ""]
                      => BindDelete(b, h.email) = st'[p].req
        /\ \A k \in DOMAIN st'[p].tx :
             IF st'[p].tx[k].kind = "update"
             THEN st'[p].tx[k].by = h.email
             ELSE st'[p].tx[k].entry.deleted_by_email = h.email
        /\ (Returned(p) /\ st'[p].resp.Success) =>
             /\ \A tbl \in HierarchyTables : \A id \in DOMAIN db[tbl] :
                  db'[tbl][id] /= db[tbl][id] => db'[tbl][id].deleted_by = h.email
             /\ db'.audit[Len(db'.audit)].deleted_by_email = h.email]_vars

\* a body naming another actor was posted by amy, and the deletion committed
ActorIsAuthenticatedAdminWitness ==
    /\ st["p1"].pc = "done" /\ st["p1"].resp.Success
    /\ http.del["p1"].code = StatusOK
    /\ http.del["p1"].payload.DeletedBy = "mallory@evil.com"
    /\ http.del["p1"].email = "amy@appointy.com"
    /\ db.groups["g1"].deleted_by = "amy@appointy.com"
    /\ db.user["u1"].deleted_by = "amy@appointy.com"
    /\ Len(db.audit) = 1
    /\ db.audit[1].deleted_by_email = "amy@appointy.com"


\* C15: an authenticated delete request whose group id list is empty or
\* missing is answered 400 and nothing else happens: no DeleteAccount call, no
\* transaction, no row change, no audit entry (an unauthenticated one is
\* answered 401, likewise without database work); DeleteAccount never runs
\* with an empty group id list.
EmptyGroupListRejected ==
    [][\A p \in Procs :
        LET h == http'.del[p] IN
        /\ (h /= http.del[p] /\ (~h.payload.hasGroupIDs \/ h.payload.GroupIDs = <<>>)) =>
             /\ h.code = IF h.email = NULL THEN StatusUnauthorized ELSE StatusBadRequest
             /\ UNCHANGED <<db, st, clock, epoch, calls>>
        /\ st'[p].pc /= "idle" => st'[p].req.GroupIDs /= <<>>]_vars

\* amy posted a body with group_ids: [] after a deletion had committed
EmptyGroupListRejectedWitness ==
    /\ http.del["p1"].code = StatusBadRequest
    /\ http.del["p1"].email = "amy@appointy.com"
    /\ http.del["p1"].payload.hasGroupIDs
    /\ http.del["p1"].payload.GroupIDs = <<>>
    /\ http.del["p1"].payload.UserID = "u1"
    /\ st["p1"].pc = "done" /\ st["p1"].resp.Success
    /\ calls = 1 /\ Len(db.audit) = 1


\* the limit and offset passed to GetAuditLogs are within 1..100 and >= 0
\* (and are the numbers sent when those are within these ranges); a missing,
\* invalid, zero or negative limit becomes 50 and a missing, invalid or
\* negative offset becomes 0
PaginationInRange(r) ==
    LET l == Atoi(r.limitQ.val)
        o == Atoi(r.offsetQ.val)
    IN /\ 1 <= r.limit /\ r.limit <= MaxLimit
       /\ r.offset >= 0
       /\ (~r.limitQ.has \/ l.err \/ l.n <= 0) => r.limit = DefaultLimit
       /\ (r.limitQ.has /\ ~l.err /\ 1 <= l.n /\ l.n <= MaxLimit) => r.limit = l.n
       /\ (~r.offsetQ.has \/ o.err \/ o.n < 0) => r.offset = 0
       /\ (r.offsetQ.has /\ ~o.err /\ o.n >= 0) => r.offset = o.n

AboveMaximum(r) ==
    r.limitQ.has /\ ~Atoi(r.limitQ.val).err /\ Atoi(r.limitQ.val).n > MaxLimit

\* C16 as stated: ... and a limit above the maximum is clamped to 100.
PaginationClampedToMaximum ==
    \A k \in DOMAIN http.logs :
        /\ PaginationInRange(http.logs[k])
        /\ AboveMaximum(http.logs[k]) => http.logs[k].limit = MaxLimit

\* C16, amended: for every limit and offset query input the values passed to
\* GetAuditLogs satisfy 1 <= limit <= 100 and offset >= 0; a missing or invalid
\* limit becomes the default 50, a limit above the maximum 100 also becomes the
\* default 50, and a missing, invalid or negative offset becomes 0.
PaginationDefaults ==
    \A k \in DOMAIN http.logs :
        /\ PaginationInRange(http.logs[k])
        /\ AboveMaximum(http.logs[k]) => http.logs[k].limit = DefaultLimit

\* a request with limit=101 and offset=-1 was answered with limit 50, offset 0
PaginationDefaultsWitness ==
    /\ Len(http.logs) = 1
    /\ http.logs[1].limitQ = Param(<<"1", "0", "1">>)
    /\ http.logs[1].offsetQ = Param(<<"-", "1">>)
    /\ http.logs[1].code = StatusOK
    /\ http.logs[1].limit = 50 /\ http.logs[1].offset = 0


\* row a of the log is at least as recent as row b
AsRecent(a, b) == db.audit[a].created_at >= db.audit[b].created_at

Range(f) == {f[k] : k \in DOMAIN f}

\* the page holds the entries at positions offset+1 .. offset+limit of the
\* log in some order of descending creation time
IsPage(r) ==
    /\ \E o \in Orders(DOMAIN db.audit) :
         /\ \A i, j \in DOMAIN o : i < j => AsRecent(o[i], o[j])
         /\ r.rows = SubSeq(o, r.offset + 1, Min(r.offset + r.limit, Len(o)))
    /\ r.logs = [k \in DOMAIN r.rows |-> AuditLogOf(db.audit[r.rows[k]])]

\* with at least 4 entries, a page (2,0) followed by a page (2,2) hold the
\* 1st-2nd and the 3rd-4th most recent entries: two entries each, none in
\* both, and none of the four most recent skipped
PagesPartition(r1, r2) ==
    (/\ Len(db.audit) >= 4
     /\ r1.code = StatusOK /\ r1.limit = 2 /\ r1.offset = 0
     /\ r2.code = StatusOK /\ r2.limit = 2 /\ r2.offset = 2)
    => /\ Len(r1.rows) = 2 /\ Len(r2.rows) = 2
       /\ Range(r1.rows) \cap Range(r2.rows) = {}
       /\ Cardinality(Range(r1.rows) \cup Range(r2.rows)) = 4
       /\ \A a \in Range(r1.rows), b \in DOMAIN db.audit \ Range(r1.rows) : AsRecent(a, b)
       /\ \A a \in Range(r1.rows) \cup Range(r2.rows),
             b \in DOMAIN db.audit \ (Range(r1.rows) \cup Range(r2.rows)) : AsRecent(a, b)

DistinctCreatedAt ==
    \A a, b \in DOMAIN db.audit : a /= b => db.audit[a].created_at /= db.audit[b].created_at

PaginationOfDistinctTimes ==
    /\ \A k \in DOMAIN http.logs : http.logs[k].code = StatusOK => IsPage(http.logs[k])
    /\ DistinctCreatedAt =>
         \A i, j \in DOMAIN http.logs : i < j => PagesPartition(http.logs[i], http.logs[j])

\* C17: GetAuditLogs(limit, offset) returns the entries at positions offset+1 ..
\* offset+limit of the log ordered by creation time descending, and with at
\* least 4 entries GetAuditLogs(2,0) followed by GetAuditLogs(2,2) return the
\* 1st-2nd and the 3rd-4th most recent entries, no entry in both pages and none
\* skipped.
PaginationPartitions ==
    /\ \A k \in DOMAIN http.logs : http.logs[k].code = StatusOK => IsPage(http.logs[k])
    /\ \A i, j \in DOMAIN http.logs : i < j => PagesPartition(http.logs[i], http.logs[j])


\* C18: the audit log is append-only: in every step of any interleaving of
\* LookupAccount, DeleteAccount (committed or failed) and GetAuditLogs, every
\* entry of the log is still there, at its place and with its contents.
AuditLogAppendOnly ==
    [][/\ Len(db'.audit) >= Len(db.audit)
       /\ \A k \in DOMAIN db.audit : db'.audit[k] = db.audit[k]]_vars

\* a second deletion committed after the log had been read and a lookup made
AuditLogAppendOnlyWitness ==
    /\ Len(db.audit) = 2
    /\ db.audit[1].group_ids = <<"g1">>
    /\ db.audit[2].group_ids = <<"g1", "g2">>
    /\ Len(http.logs) = 1 /\ http.logs[1].code = StatusOK /\ http.logs[1].rows = <<1>>
    /\ lk.pc = "done" /\ lk.status = "NotFound"
    /\ st["p1"].pc = "done" /\ st["p1"].resp.Success


SoftDeleteColumns(row, flag, by, on) ==
    [row EXCEPT !.is_deleted = flag, !.deleted_by = by, !.deleted_on = on]

\* C19: rows are only ever soft-deleted: no step removes or adds a row of the
\* user, group, company or location table, changes a row's name, parent, owner
\* or any column other than is_deleted, deleted_by and deleted_on, or takes
\* is_deleted from true to anything else; a row that changes has been written
\* with the flag set, an actor and a time.
OnlySoftDeleted ==
    [][\A tbl \in HierarchyTables :
        /\ DOMAIN db'[tbl] = DOMAIN db[tbl]
        /\ \A id \in DOMAIN db[tbl] :
             LET old == db[tbl][id]
                 new == db'[tbl][id]
             IN /\ SoftDeleteColumns(new, "true", NULL, NoTime)
                     = SoftDeleteColumns(old, "true", NULL, NoTime)
                /\ IsDeleted(old) => IsDeleted(new)
                /\ new /= old =>
                     /\ IsDeleted(new)
                     /\ new.deleted_by /= NULL
                     /\ new.deleted_on /= NoTime]_vars

\* two deletions have committed: g1 with its company and locations, then g2
OnlySoftDeletedWitness ==
    /\ epoch = 2
    /\ \A p \in Procs : st[p].pc = "done" /\ st[p].resp.Success
    /\ IsDeleted(db.groups["g1"]) /\ IsDeleted(db.groups["g2"])
    /\ IsDeleted(db.company["c1"]) /\ IsDeleted(db.location["l1"]) /\ IsDeleted(db.user["u1"])
    /\ db.company["c1"].name = RowName("c1") /\ db.company["c1"].parent = "g1"
    /\ DOMAIN db.location = LocationIds


\* a deletion that failed in the storage layer is answered 500 with no result
DeleteFailuresAreInternalErrors ==
    \A p \in Procs :
        (st[p].pc = "done" /\ st[p].err /= "") =>
            /\ st[p].err \in {"TransactionStartFailed", "QueryFailed", "UpdateFailed",
                              "AuditWriteFailed", "CommitFailed"}
            /\ http.del[p].code = StatusInternalServerError
            /\ st[p].resp.isNil

\* a lookup whose target is absent is answered 404
AbsentTargetIsNotFound ==
    (lk.pc = "done" /\ lk.status = "NotFound") => HandleLookup(lk.status) = StatusNotFound

\* a lookup that failed in the storage layer is answered 500, never 404, with
\* no partial result
LookupFailuresAreInternalErrors ==
    (lk.pc = "done" /\ lk.status = "QueryFailed") =>
        /\ HandleLookup(lk.status) = StatusInternalServerError
        /\ HandleLookup(lk.status) /= StatusNotFound
        /\ lk.infos = <<>>

ErrorSignalsExceptLookupFailure == DeleteFailuresAreInternalErrors /\ AbsentTargetIsNotFound

\* C20: error signals are kept apart at the boundary: a lookup whose target is
\* absent is answered not-found, every storage failure during a lookup or a
\* deletion is answered internal-error with no partial result, and a storage
\* failure is never answered not-found.
ErrorSignalsKeptApart ==
    /\ AbsentTargetIsNotFound
    /\ LookupFailuresAreInternalErrors
    /\ DeleteFailuresAreInternalErrors


\* the header is 'Bearer <token>' and the token is a JWT signed with the
\* server's secret by an HMAC method, not expired at the given time, whose
\* email ends in @appointy.com
ValidBearer(h, now) ==
    /\ ~h.empty /\ h.scheme = "Bearer "
    /\ h.token.parses
    /\ h.token.alg \in HMACAlgs /\ h.token.key = JWTSecret
    /\ h.token.exp = NoTime \/ now < h.token.exp
    /\ HasAppointySuffix(ToLower(h.token.email))

\* C21: a handler of a protected route (lookup, deletion, audit-log listing)
\* runs, and the database is read or written, only for a request whose
\* Authorization header is 'Bearer <token>' with a validly signed, unexpired
\* JWT of an @appointy.com address; any other request is answered 401 and
\* nothing else happens.
HandlersRunOnlyAuthenticated ==
    [][/\ (st' /= st \/ db' /= db \/ http'.del /= http.del) =>
            /\ http.req.code = 0 /\ http.req.route = "delete"
            /\ ValidBearer(http.req.header, http.req.now)
       /\ lk' /= lk =>
            /\ http.req.code = 0 /\ http.req.route = "lookup"
            /\ ValidBearer(http.req.header, http.req.now)
       /\ http'.logs /= http.logs =>
            /\ http.req.code = 0 /\ http.req.route = "audit-logs"
            /\ ValidBearer(http.req.header, http.req.now)
       /\ (http'.req /= http.req /\ ~ValidBearer(http'.req.header, clock)) =>
            /\ http'.req.code = StatusUnauthorized
            /\ http'.del = http.del /\ http'.logs = http.logs
            /\ UNCHANGED <<db, st, lk, clock, epoch, calls>>]_vars

\* a deletion ran for a token that was valid; the same token, expired since,
\* was then answered 401 on the lookup route and no lookup ran
HandlersRunOnlyAuthenticatedWitness ==
    /\ st["p1"].pc = "done" /\ st["p1"].resp.Success
    /\ http.del["p1"].email = "amy@appointy.com"
    /\ http.req.route = "lookup"
    /\ http.req.code = StatusUnauthorized
    /\ http.req.header.scheme = "Bearer "
    /\ http.req.header.token = Jwt("HS256", JWTSecret, 3, 1, "amy@appointy.com")
    /\ http.req.now = 3
    /\ lk = IdleLookup


(***************************************************************************)
(* C22, C28: the OAuth callback and the sessions map                       *)
(***************************************************************************)
\* the addresses of UserInfos in the domain appointy.com (domain names are
\* compared without regard to case)
AppointyAddresses == {"amy@appointy.com", "Bob@APPOINTY.COM"}

\* every token was issued for a state a login generated and for a verified
\* address that ValidateAppointyEmail accepts, and every state a callback
\* accepted was generated by a login
TokenOnlyForIssuedStateAndVerifiedAppointy ==
    /\ \A i \in 1..Len(http.auth.tokens) :
          /\ http.auth.tokens[i].state \in http.auth.issued
          /\ http.auth.tokens[i].userInfo.Email \in AppointyAddresses
          /\ http.auth.tokens[i].userInfo.VerifiedEmail
          /\ \E j \in 1..Len(http.auth.accepted) :
                http.auth.accepted[j] = http.auth.tokens[i].state
    /\ \A j \in 1..Len(http.auth.accepted) : http.auth.accepted[j] \in http.auth.issued
    /\ \A p \in Procs :
          (http.auth.h[p].pc = "done" /\ http.auth.h[p].code = StatusOK
             /\ http.auth.h[p].userInfo /= NoUserInfo) =>
              \E i \in 1..Len(http.auth.tokens) :
                  /\ http.auth.tokens[i].state = http.auth.h[p].state
                  /\ http.auth.tokens[i].userInfo = http.auth.h[p].userInfo

\* no state passed the check of two callbacks
AcceptedAtMostOnce ==
    \A i, j \in 1..Len(http.auth.accepted) :
        i /= j => http.auth.accepted[i] /= http.auth.accepted[j]

\* C22: the callback issues a token only for a state that an earlier login
\* issued and that no callback accepted before (every state is accepted at
\* most once, an unknown state never), and only for a verified address
\* ending in @appointy.com
CallbackIssuesTokenOncePerState ==
    /\ TokenOnlyForIssuedStateAndVerifiedAppointy
    /\ AcceptedAtMostOnce
    /\ \A i, j \in 1..Len(http.auth.tokens) :
          i /= j => http.auth.tokens[i].state /= http.auth.tokens[j].state

\* two callbacks that carry the same state are both past the check
ConcurrentlyAccepted ==
    \E p, q \in Procs :
        /\ p /= q
        /\ http.auth.h[p].pc \in {"deleting", "exchange"}
        /\ http.auth.h[q].pc \in {"deleting", "exchange"}
        /\ http.auth.h[p].state = http.auth.h[q].state

\* C28: no access to the sessions map overlaps a write of it by another
\* request, the runtime never stops the process for a concurrent map
\* access, and no two concurrent callbacks are accepted with the same state
SessionsMapSynchronized ==
    /\ ~MapRace
    /\ ~http.auth.fatal
    /\ ~ConcurrentlyAccepted


(***************************************************************************)
(* C23: enumeration reads and the transaction                              *)
(***************************************************************************)
\* the rows of a table that the statements of a transaction soft-delete
IssuedSoftDeletes(stmts, tbl) ==
    {stmts[i].id : i \in {j \in 1..Len(stmts) :
                            stmts[j].kind = "update" /\ stmts[j].tbl = tbl}}

\* C23: every enumeration of a DeleteAccount call sees the soft-deletes the
\* call has already issued: no company or location it returns is one the call
\* has soft-deleted before (a repeated group id finds no live companies on
\* its second pass)
EnumerationsInsideTransaction ==
    [][\A p \in Procs :
         /\ (st[p].pc = "companies" /\ st'[p].pc \in {"locations", "delGroup"}) =>
               \A i \in 1..Len(st'[p].companies) :
                   st'[p].companies[i] \notin IssuedSoftDeletes(st[p].tx, "company")
         /\ (st[p].pc = "locations" /\ st'[p].pc \in {"delLocation", "delCompany"}) =>
               \A i \in 1..Len(st'[p].locations) :
                   st'[p].locations[i] \notin IssuedSoftDeletes(st[p].tx, "location")]_vars


(***************************************************************************)
(* C24: write order inside one call                                        *)
(***************************************************************************)
\* the ids of the group rows the statements soft-delete, in order
GroupUpdates(stmts) ==
    LET g == SelectSeq(stmts, LAMBDA s : s.kind = "update" /\ s.tbl = "groups")
    IN [i \in 1..Len(g) |-> g[i].id]

IsUpdateOf(s, tbl) == s.kind = "update" /\ s.tbl = tbl

\* C24: the statements of a call are issued one after the other; a company
\* is soft-deleted only after all its enumerated locations, a group only
\* after all its enumerated companies and in the order of the request, the
\* user row only after every requested group, the audit entry is inserted
\* right after the user row's soft-delete, and the commit follows the insert
WriteOrder ==
    [][\A p \in Procs :
         LET a == st[p]
             b == st'[p]
             s == b.tx[Len(b.tx)]
         IN /\ Len(b.tx) > Len(a.tx) =>
                 /\ Len(b.tx) = Len(a.tx) + 1
                 /\ SubSeq(b.tx, 1, Len(a.tx)) = a.tx
                 /\ IsUpdateOf(s, "location") =>
                       /\ a.locations /= <<>> /\ s.id = Head(a.locations)
                       /\ ~\E i \in 1..Len(a.tx) : a.tx[i].kind = "insert" \/ IsUpdateOf(a.tx[i], "user")
                 /\ IsUpdateOf(s, "company") =>
                       /\ a.locations = <<>>
                       /\ a.companies /= <<>> /\ s.id = Head(a.companies)
                       /\ ~\E i \in 1..Len(a.tx) : a.tx[i].kind = "insert" \/ IsUpdateOf(a.tx[i], "user")
                 /\ IsUpdateOf(s, "groups") =>
                       /\ a.companies = <<>>
                       /\ GroupUpdates(b.tx) = SubSeq(a.req.GroupIDs, 1, a.gi)
                       /\ ~\E i \in 1..Len(a.tx) : a.tx[i].kind = "insert" \/ IsUpdateOf(a.tx[i], "user")
                 /\ IsUpdateOf(s, "user") =>
                       /\ s.id = a.req.UserID
                       /\ GroupUpdates(a.tx) = a.req.GroupIDs
                       /\ ~\E i \in 1..Len(a.tx) : a.tx[i].kind = "insert" \/ IsUpdateOf(a.tx[i], "user")
                 /\ s.kind = "insert" =>
                       /\ a.tx /= <<>>
                       /\ IsUpdateOf(a.tx[Len(a.tx)], "user")
                       /\ ~\E i \in 1..Len(a.tx) : a.tx[i].kind = "insert"
            /\ (a.pc = "locations" /\ b.pc \in {"delLocation", "delCompany"}) =>
                 b.tx = a.tx /\ b.companies = a.companies
            /\ (a.pc \in InFlight /\ b.pc = "done" /\ b.resp.Success) =>
                 /\ a.tx /= <<>>
                 /\ a.tx[Len(a.tx)].kind = "insert"
                 /\ db' = ExecAll(db, a.tx)]_vars

\* a call for two groups, one of them with a company and locations, is about
\* to commit
WriteOrderWitness ==
    \E p \in Procs :
        /\ st[p].pc = "commit"
        /\ st[p].req.GroupIDs = <<"g1", "g2">>
        /\ \E i, j, k \in 1..Len(st[p].tx) :
              /\ i < j /\ j < k
              /\ IsUpdateOf(st[p].tx[i], "location")
              /\ IsUpdateOf(st[p].tx[j], "company")
              /\ IsUpdateOf(st[p].tx[k], "groups")
        /\ st[p].tx[Len(st[p].tx)].kind = "insert"


(***************************************************************************)
(* C25: the audit entry of a successful call                               *)
(***************************************************************************)
\* C25: when a DeleteAccount call returns successfully, the step adds one
\* entry to the audit log; its action is ACCOUNT_DELETION, its target e-mail,
\* user id, group id list and reason are the request's, and its three counts
\* are the counters of the response
AuditEntryMatchesRequestAndResponse ==
    [][\A p \in Procs :
         (st[p].pc \in InFlight /\ st'[p].pc = "done" /\ st'[p].resp.Success) =>
            /\ Len(db'.audit) = Len(db.audit) + 1
            /\ SubSeq(db'.audit, 1, Len(db.audit)) = db.audit
            /\ LET e == db'.audit[Len(db'.audit)]
                   req == st[p].req
                   resp == st'[p].resp
               IN /\ e.action = "ACCOUNT_DELETION"
                  /\ e.target_email = req.Email
                  /\ e.target_user_id = req.UserID
                  /\ e.group_ids = req.GroupIDs
                  /\ e.reason = req.Reason
                  /\ e.deleted_groups = resp.DeletedGroups
                  /\ e.deleted_companies = resp.DeletedCompanies
                  /\ e.deleted_locations = resp.DeletedLocations]_vars

\* a call whose request repeats a group id has returned successfully, with
\* counters that are not zero, and its entry is the last of the audit log
AuditEntryMatchesRequestAndResponseWitness ==
    \E p \in Procs :
        /\ st[p].pc = "done"
        /\ st[p].resp.Success
        /\ st[p].req.GroupIDs = <<"g1", "g1">>
        /\ st[p].resp.DeletedGroups = 2
        /\ st[p].resp.DeletedCompanies > 0
        /\ db.audit /= <<>>
        /\ db.audit[Len(db.audit)].group_ids = <<"g1", "g1">>
        /\ db.audit[Len(db.audit)].deleted_groups = 2


(***************************************************************************)
(* C26: one timestamp per deletion                                         *)
(***************************************************************************)
\* C26: a call reads the time once, when it starts; when it returns
\* successfully, every location, company, group and user row it soft-deleted
\* has that instant as deleted_on, and so have the created_at of its audit
\* entry and the DeletedAt of its response
OneTimestampPerDeletion ==
    [][\A p \in Procs :
         /\ (st[p].pc \notin InFlight /\ st'[p].pc \in InFlight) =>
               /\ st'[p].now /= NoTime
               /\ st'[p].now <= clock
         /\ (st[p].pc \in InFlight /\ st'[p].pc \in InFlight) => st'[p].now = st[p].now
         /\ (st[p].pc \in InFlight /\ st'[p].pc = "done" /\ st'[p].resp.Success) =>
               /\ \A tbl \in HierarchyTables :
                     \A id \in IssuedSoftDeletes(st[p].tx, tbl) \cap DOMAIN db[tbl] :
                         db'[tbl][id].deleted_on = st[p].now
               /\ \A tbl \in HierarchyTables :
                     \A id \in DOMAIN db[tbl] :
                         db'[tbl][id] /= db[tbl][id] => db'[tbl][id].deleted_on = st[p].now
               /\ db'.audit[Len(db'.audit)].created_at = st[p].now
               /\ st'[p].resp.DeletedAt = st[p].now]_vars

\* a call has returned successfully and rows of all four tables carry the
\* instant of its response
OneTimestampPerDeletionWitness ==
    \E p \in Procs :
        /\ st[p].pc = "done"
        /\ st[p].resp.Success
        /\ st[p].resp.DeletedAt /= NoTime
        /\ st[p].resp.DeletedLocations > 0
        /\ \A tbl \in HierarchyTables :
              \E id \in DOMAIN db[tbl] :
                  /\ IsDeleted(db[tbl][id])
                  /\ db[tbl][id].deleted_on = st[p].resp.DeletedAt
        /\ db.audit[Len(db.audit)].created_at = st[p].resp.DeletedAt


(***************************************************************************)
(* C27: the rows a call may touch                                          *)
(***************************************************************************)
\* the group row belongs to the user of the request
OwnGroup(dbv, req, g) == g \in DOMAIN dbv.groups /\ dbv.groups[g].created_by = req.UserID

\* C27: a successful DeleteAccount call changes only rows of the target
\* user's hierarchy: groups created by the request's user id, companies and
\* locations below such groups, and the live user row whose e-mail address
\* is the request's
OnlyTargetHierarchyTouched ==
    [][\A p \in Procs :
         (st[p].pc \in InFlight /\ st'[p].pc = "done" /\ st'[p].resp.Success) =>
            LET req == st[p].req
            IN /\ \A g \in DOMAIN db.groups :
                     db'.groups[g] /= db.groups[g] => OwnGroup(db, req, g)
               /\ \A c \in DOMAIN db.company :
                     db'.company[c] /= db.company[c] => OwnGroup(db, req, db.company[c].parent)
               /\ \A l \in DOMAIN db.location :
                     db'.location[l] /= db.location[l] =>
                        /\ db.location[l].parent \in DOMAIN db.company
                        /\ OwnGroup(db, req, db.company[db.location[l].parent].parent)
               /\ \A u \in DOMAIN db.user :
                     db'.user[u] /= db.user[u] => u \in getUserByEmail(db, req.Email)]_vars

====
